---- MODULE Spec2Model ----
(***************************************************************************)
(* A model of the cbored CBOR codec: the structural state machine          *)
(* (src/state.rs), the data cursor (src/context.rs), the lead/header       *)
(* decoder (src/lowlevel/lead.rs, src/header.rs), the Validator            *)
(* (src/validate.rs), the Reader (src/reader.rs), the Writer               *)
(* (src/writer.rs) and the encoding of unsigned integers (src/encode.rs).  *)
(*                                                                         *)
(* Option<T> is modelled as a sequence of length at most one: <<>> is      *)
(* None and <<x>> is Some(x).  A Result is a record whose res field is     *)
(* "Ok" or the name of the error variant; a Rust panic is the res          *)
(* "Panic".                                                                *)
(***************************************************************************)
EXTENDS Integers, Sequences, FiniteSets, TLC

VARIABLES
    ctx,      \* State.ctx: the stack of StructTy frames (top is the last element)
    prev,     \* history: State.ctx as it was when the last operation was called
    op,       \* the State operation last called, with its argument
    ret,      \* what that operation returned
    root,     \* history: the definite array/map opened on an empty State, if any
    fed,      \* history: the scalar items fed since root, nothing else in between
    vd,       \* the Validator: [data, index, ctx] (reader.data, reader.index, state.ctx)
    vret,     \* what the last Validator::next() returned
    calls,    \* history: the results of the Validator::next() calls so far
    rd,       \* the Reader: [data, index] (reader.data, reader.index)
    rprev,    \* history: the Reader as it was when the last accessor was called
    rop,      \* the Reader accessor last called
    rret,     \* what the last Reader accessor returned
    wd,       \* Writer.data: the bytes written so far
    wprev,    \* Writer.data before the last write
    wlog,     \* the writes made, oldest first: the call and its argument
    wret      \* how the last write ended: "Ok" or "Panic"

stateVars == <<ctx, prev, op, ret, root, fed>>
validatorVars == <<vd, vret, calls>>
readerVars == <<rd, rprev, rop, rret>>
writerVars == <<wd, wprev, wlog, wret>>
vars == <<ctx, prev, op, ret, root, fed, vd, vret, calls, rd, rprev, rop, rret,
          wd, wprev, wlog, wret>>

----------------------------------------------------------------------------
(* Bounds of the model *)

\* the largest declared length of a definite array/map in the State operations
MaxCount == 2
\* the deepest frame stack the State operations are explored to
MaxDepth == 3

\* the longest input enumerated over ByteAlphabet for a Validator
MaxLen == 3
\* the most Validator::next() calls made on one Validator
MaxCalls == 3

None == <<>>
Some(x) == <<x>>
Last(s) == s[Len(s)]
Front(s) == SubSeq(s, 1, Len(s) - 1)

----------------------------------------------------------------------------
(* src/header.rs: Value *)

(* A u64 is kept as its four 16-bit limbs, most significant first, so    *)
(* that the thresholds 2^32 and the values up to 2^64 - 1 of the code can  *)
(* be written; the narrower integers u5/u8/u16/u32 are limbs whose high    *)
(* part is zero.                                                           *)

\* `n as u64` for a literal or a small count n (n < 2^31)
u64_from(n) == <<0, 0, n \div 65536, n % 65536>>

\* `v as usize` for a value used as a length (usize is 64 bits wide; the
\* lengths explored stay below 2^31)
as_usize(v) == v[3] * 65536 + v[4]

\* `v as u8`, `v as u16`, `v as u32`: truncation to the low bits
as_u8(v) == <<0, 0, 0, v[4] % 256>>
as_u16(v) == <<0, 0, 0, v[4]>>
as_u32(v) == <<0, 0, v[3], v[4]>>

\* a < b on u64
RECURSIVE u64_lt_from(_, _, _)
u64_lt_from(a, b, i) ==
    IF i > 4 THEN FALSE
    ELSE IF a[i] # b[i] THEN a[i] < b[i]
    ELSE u64_lt_from(a, b, i + 1)

u64_lt(a, b) == u64_lt_from(a, b, 1)

\* Value::to_size: every tier widens to usize (64 bits, no truncation)
to_size(value) == as_usize(value.v)

\* Value::to_u64: every tier widens to u64
to_u64(value) == value.v

ValueU64(n) == [tier |-> "U64", v |-> u64_from(n)]

----------------------------------------------------------------------------
(* src/state.rs *)

StreamTypeArray == [t |-> "Array", b |-> FALSE]
StreamTypeMap(b) == [t |-> "Map", b |-> b]
StreamTypeBytes == [t |-> "Bytes", b |-> FALSE]
StreamTypeText == [t |-> "Text", b |-> FALSE]

composite_scalar(sty) == sty.t \in {"Bytes", "Text"}

StructTyArray(n) == [k |-> "Array", n |-> n]
StructTyMap(exp_val, elements) == [k |-> "Map", exp_val |-> exp_val, elements |-> elements]
StructTyStream(sty) == [k |-> "Stream", sty |-> sty]
StructTyTag(t) == [k |-> "Tag", t |-> t]

reduceable(f) ==
    CASE f.k = "Array" -> f.n = 0
      [] f.k = "Map" -> f.elements = 0
      [] f.k = "Tag" -> f.t
      [] f.k = "Stream" -> FALSE

StOk(c) == [ctx |-> c, res |-> "Ok"]
StErr(c, e) == [ctx |-> c, res |-> e]

new == <<>>

acceptable(c) == c = <<>>

InChunks(c) == c # <<>> /\ Last(c).k = "Stream" /\ composite_scalar(Last(c).sty)

push_stream(c, ty) ==
    IF InChunks(c)
    THEN StErr(c, "StructureInChunks")
    ELSE StOk(Append(c, StructTyStream(ty)))

advance(c) ==
    IF c = <<>> THEN StOk(c)
    ELSE LET f == Last(c) IN
         CASE f.k = "Array" ->
                IF f.n = 0 THEN StErr(c, "Panic")
                ELSE StOk(Append(Front(c), StructTyArray(f.n - 1)))
           [] f.k = "Map" ->
                IF f.exp_val
                THEN StOk(Append(Front(c), StructTyMap(FALSE, f.elements)))
                ELSE IF f.elements = 0 THEN StErr(c, "Panic")
                     ELSE StOk(Append(Front(c), StructTyMap(f.exp_val, f.elements - 1)))
           [] f.k = "Tag" ->
                IF f.t THEN StErr(c, "Panic")
                ELSE StOk(Append(Front(c), StructTyTag(TRUE)))
           [] f.k = "Stream" -> StOk(c)

reduce(c) ==
    IF c = <<>> THEN StErr(c, "StructureEndNotInStructure")
    ELSE LET f == Last(c)
             rest == Front(c)
         IN CASE f.k = "Array" ->
                   IF f.n > 0 THEN StErr(rest, "StructureNotFinished") ELSE StOk(rest)
              [] f.k = "Map" ->
                   IF f.elements > 0 THEN StErr(rest, "StructureNotFinished") ELSE StOk(rest)
              [] f.k = "Tag" ->
                   IF f.t THEN StOk(rest) ELSE StErr(rest, "TagNotFinished")
              [] f.k = "Stream" -> StErr(rest, "StructureNotFinished")

\* one turn of the loop of check_reduce: reduce()? then advance()?
reduce_step(c) ==
    LET r == reduce(c) IN
    IF r.res # "Ok" THEN r ELSE advance(r.ctx)

\* a check_reduce that pops the finished frames without counting any of
\* them in the frame below
RECURSIVE reduce_without_advance(_)
reduce_without_advance(c) ==
    IF c # <<>> /\ reduceable(Last(c))
    THEN LET r == reduce(c) IN
         IF r.res # "Ok" THEN r ELSE reduce_without_advance(r.ctx)
    ELSE StOk(c)

RECURSIVE check_reduce(_)
check_reduce(c) ==
    IF c # <<>> /\ reduceable(Last(c))
    THEN LET a == reduce_step(c) IN
         IF a.res # "Ok" THEN a ELSE check_reduce(a.ctx)
    ELSE StOk(c)

\* an advance()? that leaves the frame it counted down where it is
advance_without_reduce(c) == advance(c)

\* advance()? followed by check_reduce()
advance_reduce(c) ==
    LET a == advance(c) IN
    IF a.res # "Ok" THEN a ELSE check_reduce(a.ctx)

item_streamable(c, v, new_stream) ==
    IF v = None
    THEN push_stream(c, new_stream)
    ELSE advance_reduce(c)

\* a struct_start that pushes the frame of a definite array/map and does not
\* try to reduce it
struct_start_without_reduce(c, v, stream, kind) ==
    IF InChunks(c)
    THEN StErr(c, "StructureInChunks")
    ELSE IF v = None
         THEN push_stream(c, stream)
         ELSE StOk(Append(c, IF kind = "Array" THEN StructTyArray(to_size(v[1]))
                             ELSE StructTyMap(FALSE, to_size(v[1]))))

\* kind stands for the closure f: "Array" builds StructTy::Array(sz),
\* "Map" builds StructTy::Map { exp_val: false, elements: sz }
struct_start(c, v, stream, kind) ==
    IF InChunks(c)
    THEN StErr(c, "StructureInChunks")
    ELSE IF v = None
         THEN push_stream(c, stream)
         ELSE LET sz == to_size(v[1])
                  f == IF kind = "Array" THEN StructTyArray(sz)
                       ELSE StructTyMap(FALSE, sz)
              IN check_reduce(Append(c, f))

simple(c) == advance_reduce(c)

text(c, v) == item_streamable(c, v, StreamTypeText)

bytes(c, v) == item_streamable(c, v, StreamTypeBytes)

array(c, v) == struct_start(c, v, StreamTypeArray, "Array")

map(c, v) == struct_start(c, v, StreamTypeMap(FALSE), "Map")

\* a brk that closes whatever frame is on top
brk_any_frame(c) ==
    IF c = <<>> THEN StErr(c, "BreakEmptyStack") ELSE advance_reduce(Front(c))

brk(c) ==
    IF c = <<>> THEN StErr(c, "BreakEmptyStack")
    ELSE IF Last(c).k # "Stream" THEN StErr(Front(c), "BreakInNonStreamable")
    ELSE advance_reduce(Front(c))

tag(c) ==
    IF InChunks(c)
    THEN StErr(c, "TagInChunk")
    ELSE StOk(Append(c, StructTyTag(FALSE)))

----------------------------------------------------------------------------
(* src/lowlevel/lead.rs.  A byte is an integer in 0 .. 255. *)

CONTENT_MASK == 31

Major_from_byte(v) ==
    CASE v \div 32 = 0 -> "Positive"
      [] v \div 32 = 1 -> "Negative"
      [] v \div 32 = 2 -> "Bytes"
      [] v \div 32 = 3 -> "Text"
      [] v \div 32 = 4 -> "Array"
      [] v \div 32 = 5 -> "Map"
      [] v \div 32 = 6 -> "Tag"
      [] v \div 32 = 7 -> "Other"

\* IndirectLen::len_bytes
len_bytes(ilen) ==
    CASE ilen = "I1" -> 1
      [] ilen = "I2" -> 2
      [] ilen = "I4" -> 4
      [] ilen = "I8" -> 8

ContentImm(v) == [c |-> "Imm", v |-> v]
ContentIndirect(ilen) == [c |-> "Indirect", ilen |-> ilen]
ContentStreamStream == [c |-> "Stream"]

LeadOk(l) == [res |-> "Ok", lead |-> l]
LeadErr(e, byte) == [res |-> "LeadError", err |-> e, byte |-> byte]

\* a Content::from_byte that takes the content 31 for a reserved one
Content_from_byte_all_reserved(byte) ==
    LET b == byte % (CONTENT_MASK + 1) IN
    CASE b <= 23 -> LeadOk(ContentImm(b))
      [] b = 24 -> LeadOk(ContentIndirect("I1"))
      [] b = 25 -> LeadOk(ContentIndirect("I2"))
      [] b = 26 -> LeadOk(ContentIndirect("I4"))
      [] b = 27 -> LeadOk(ContentIndirect("I8"))
      [] b \in 28 .. 31 -> LeadErr("Reserved", byte)

\* the result is the content, to be wrapped by the caller (Result::map)
Content_from_byte(byte) ==
    LET b == byte % (CONTENT_MASK + 1) IN
    CASE b <= 23 -> LeadOk(ContentImm(b))
      [] b = 24 -> LeadOk(ContentIndirect("I1"))
      [] b = 25 -> LeadOk(ContentIndirect("I2"))
      [] b = 26 -> LeadOk(ContentIndirect("I4"))
      [] b = 27 -> LeadOk(ContentIndirect("I8"))
      [] b \in 28 .. 30 -> LeadErr("Reserved", byte)
      [] b = 31 -> LeadErr("IndefiniteNotSupported", byte)

ContentStream_from_byte(byte) ==
    LET b == byte % (CONTENT_MASK + 1) IN
    CASE b <= 23 -> LeadOk(ContentImm(b))
      [] b = 24 -> LeadOk(ContentIndirect("I1"))
      [] b = 25 -> LeadOk(ContentIndirect("I2"))
      [] b = 26 -> LeadOk(ContentIndirect("I4"))
      [] b = 27 -> LeadOk(ContentIndirect("I8"))
      [] b \in 28 .. 30 -> LeadErr("Reserved", byte)
      [] b = 31 -> LeadOk(ContentStreamStream)

Content_expected_extra(con) ==
    IF con.c = "Indirect" THEN Some(con.ilen) ELSE None

LeadOf(l, con) == [l |-> l, c |-> con]
LeadByteImm(v) == [l |-> "ByteImm", v |-> v]
LeadPlain(l) == [l |-> l]

Lead_special(byte) ==
    LET b == byte % (CONTENT_MASK + 1) IN
    CASE b <= 19 -> LeadOk(LeadByteImm(b))
      [] b = 20 -> LeadOk(LeadPlain("False"))
      [] b = 21 -> LeadOk(LeadPlain("True"))
      [] b = 22 -> LeadOk(LeadPlain("Null"))
      [] b = 23 -> LeadOk(LeadPlain("Undefined"))
      [] b = 24 -> LeadOk(LeadPlain("ByteI1"))
      [] b = 25 -> LeadOk(LeadPlain("FP16"))
      [] b = 26 -> LeadOk(LeadPlain("FP32"))
      [] b = 27 -> LeadOk(LeadPlain("FP64"))
      [] b \in 28 .. 30 -> LeadErr("Reserved", b)
      [] b = 31 -> LeadOk(LeadPlain("Break"))

Lead_from_byte(b) ==
    LET m == Major_from_byte(b)
        wrap(r) == IF r.res = "Ok" THEN LeadOk(LeadOf(m, r.lead)) ELSE r
    IN CASE m \in {"Positive", "Negative", "Tag"} -> wrap(Content_from_byte(b))
         [] m \in {"Bytes", "Text", "Array", "Map"} -> wrap(ContentStream_from_byte(b))
         [] m = "Other" -> Lead_special(b)

Lead_expected_extra(ld) ==
    CASE ld.l \in {"Positive", "Negative", "Bytes", "Text", "Array", "Map", "Tag"} ->
             Content_expected_extra(ld.c)
      [] ld.l = "ByteI1" -> Some("I1")
      [] ld.l = "FP16" -> Some("I2")
      [] ld.l = "FP32" -> Some("I4")
      [] ld.l = "FP64" -> Some("I8")
      [] OTHER -> None

IndirectValueOf(w, v) == [w |-> w, v |-> v]

\* big-endian bytes of an integer, read as a number below 2^31
RECURSIVE be_int(_)
be_int(s) ==
    IF s = <<>> THEN 0 ELSE be_int(Front(s)) * 256 + Last(s)

\* the 8 bytes of a u64 after the 1, 2, 4 or 8 bytes read are widened
be_padded(s) == [i \in 1..8 |-> IF i <= 8 - Len(s) THEN 0 ELSE s[i - (8 - Len(s))]]

be_limbs(p) == <<p[1] * 256 + p[2], p[3] * 256 + p[4],
                 p[5] * 256 + p[6], p[7] * 256 + p[8]>>

\* uN::from_be_bytes
from_be_bytes(s) == be_limbs(be_padded(s))

----------------------------------------------------------------------------
(* src/header.rs: Header *)

ValueOf(tier, v) == [tier |-> tier, v |-> v]

\* a canonical() whose U16 tier also takes 2^16
canonical_wide_u16(v) ==
    IF u64_lt(v, u64_from(24)) THEN ValueOf("Imm", as_u8(v))
    ELSE IF u64_lt(v, u64_from(256)) THEN ValueOf("U8", as_u8(v))
    ELSE IF u64_lt(v, <<0, 0, 1, 1>>) THEN ValueOf("U16", as_u16(v))
    ELSE IF u64_lt(v, <<0, 1, 0, 0>>) THEN ValueOf("U32", as_u32(v))
    ELSE ValueOf("U64", v)

\* HeaderValue::canonical / Value::canonical; 0x10000 is <<0, 0, 1, 0>> and
\* 0x100000000 is <<0, 1, 0, 0>>
canonical(v) ==
    IF u64_lt(v, u64_from(24)) THEN ValueOf("Imm", as_u8(v))
    ELSE IF u64_lt(v, u64_from(256)) THEN ValueOf("U8", as_u8(v))
    ELSE IF u64_lt(v, <<0, 0, 1, 0>>) THEN ValueOf("U16", as_u16(v))
    ELSE IF u64_lt(v, <<0, 1, 0, 0>>) THEN ValueOf("U32", as_u32(v))
    ELSE ValueOf("U64", v)

\* HeaderValue::is_canonical / Value::is_canonical: an immediate is not checked
is_canonical(h) ==
    CASE h.tier = "Imm" -> TRUE
      [] h.tier = "U8" -> ~u64_lt(h.v, u64_from(24))
      [] h.tier = "U16" -> ~u64_lt(h.v, u64_from(256))
      [] h.tier = "U32" -> ~u64_lt(h.v, <<0, 0, 1, 0>>)
      [] h.tier = "U64" -> ~u64_lt(h.v, <<0, 1, 0, 0>>)

\* HeaderValue::to_lead_content
to_lead_content(h) ==
    CASE h.tier = "Imm" -> ContentImm(as_usize(h.v))
      [] h.tier = "U8" -> ContentIndirect("I1")
      [] h.tier = "U16" -> ContentIndirect("I2")
      [] h.tier = "U32" -> ContentIndirect("I4")
      [] h.tier = "U64" -> ContentIndirect("I8")

\* HeaderValue8::to_u8
to_u8(h) == as_usize(h.v)

\* HeaderValue8::canonical, v a u8
canonical8(v) == IF v < 24 THEN ValueOf("Imm", u64_from(v)) ELSE ValueOf("U8", u64_from(v))

\* HeaderValue8::is_canonical
is_canonical8(h) ==
    CASE h.tier = "Imm" -> TRUE
      [] h.tier = "U8" -> to_u8(h) >= 24

\* From<IndirectValue> for Value: the tier is the width read
Value_from(ival) == ValueOf(ival.w, ival.v)

\* a resolve_value that brings what was read to its canonical tier
resolve_value_narrowed(con, ival) ==
    CASE con.c = "Imm" /\ ival = None -> ValueOf("Imm", u64_from(con.v))
      [] con.c = "Indirect" /\ ival # None -> canonical(to_u64(Value_from(ival[1])))

resolve_value(con, ival) ==
    CASE con.c = "Imm" /\ ival = None -> ValueOf("Imm", u64_from(con.v))
      [] con.c = "Indirect" /\ ival # None -> Value_from(ival[1])

resolve_value_stream(con, ival) ==
    CASE con.c = "Stream" -> None
      [] con.c = "Imm" -> Some(ValueOf("U8", u64_from(con.v)))
      [] con.c = "Indirect" /\ ival # None -> Some(Value_from(ival[1]))

HeaderValued(h, val) == [h |-> h, val |-> val]
HeaderConstant(c) == [h |-> "Constant", c |-> c]
HeaderFloat(fp, bits) == [h |-> "Float", fp |-> fp, bits |-> bits]
HeaderBreak == [h |-> "Break"]

other_payload(val) ==
    CASE val[1].w = "U8" -> HeaderValued("Byte", ValueOf("U8", val[1].v))
      [] val[1].w = "U16" -> HeaderFloat("FP16", val[1].v)
      [] val[1].w = "U32" -> HeaderFloat("FP32", val[1].v)
      [] val[1].w = "U64" -> HeaderFloat("FP64", val[1].v)

Header_from_parts(ld, ival) ==
    CASE ld.l \in {"Positive", "Negative", "Tag"} ->
             HeaderValued(ld.l, resolve_value(ld.c, ival))
      [] ld.l \in {"Bytes", "Text", "Array", "Map"} ->
             HeaderValued(ld.l, resolve_value_stream(ld.c, ival))
      [] ld.l = "ByteImm" -> HeaderValued("Byte", ValueOf("Imm", u64_from(ld.v)))
      [] ld.l \in {"False", "True", "Null", "Undefined"} -> HeaderConstant(ld.l)
      [] ld.l \in {"ByteI1", "FP16", "FP32", "FP64"} -> other_payload(ival)
      [] ld.l = "Break" -> HeaderBreak

Header_to_type(hdr) ==
    CASE hdr.h = "Constant" -> hdr.c
      [] OTHER -> hdr.h

----------------------------------------------------------------------------
(* src/context.rs: CborDataReader.  index counts from 0 as in the code;    *)
(* data[start..end] is SubSeq(data, start + 1, end).  The lengths the      *)
(* model's inputs declare stay far below 2^64, so start + n is exact.      *)

DataMissing(n, got, context) ==
    [res |-> "DataMissing", expecting_bytes |-> n, got_bytes |-> got, context |-> context]

remaining_bytes(data, index) == Len(data) - index

peek(data, index, context, offset, n) ==
    IF n = 0 THEN [res |-> "Ok", slice |-> <<>>]
    ELSE LET rem == remaining_bytes(data, index) IN
         IF rem < offset THEN DataMissing(n, 0, context)
         ELSE LET offseted_rem == rem - offset
                  start == index + offset
                  end == start + n
              IN IF n > offseted_rem
                 THEN DataMissing(n, rem, context)
                 ELSE [res |-> "Ok", slice |-> SubSeq(data, start + 1, end)]

\* consume: the index moves only when the peek succeeded
consume(data, index, context, n) ==
    LET dat == peek(data, index, context, 0, n) IN
    IF dat.res # "Ok" THEN [r |-> dat, index |-> index]
    ELSE [r |-> dat, index |-> index + n]

slice_from(data, index, start) == SubSeq(data, start + 1, index)

----------------------------------------------------------------------------
(* src/validate.rs: Validator.  A validator is [data, index, ctx]:         *)
(* reader.data, reader.index and state.ctx.                                *)

ResOk == [res |-> "Ok"]

Validator_lead(v) ==
    LET hdr == peek(v.data, v.index, "Header", 0, 1) IN
    IF hdr.res # "Ok" THEN hdr ELSE Lead_from_byte(hdr.slice[1])

IndirectWidth(ilen) ==
    CASE ilen = "I1" -> "U8"
      [] ilen = "I2" -> "U16"
      [] ilen = "I4" -> "U32"
      [] ilen = "I8" -> "U64"

Validator_resolve_indirect(v, indirect_len) ==
    LET s == peek(v.data, v.index, "IndirectLen", 1, len_bytes(indirect_len)) IN
    IF s.res # "Ok" THEN s
    ELSE [res |-> "Ok",
          ival |-> IndirectValueOf(IndirectWidth(indirect_len), from_be_bytes(s.slice))]

\* header_parts once the lead ld is read: the (advance, indirect) match
header_parts_extra(ld, maybe_indirect, i) ==
    IF maybe_indirect = None
    THEN [res |-> "Ok", lead |-> ld, advance |-> 1, ival |-> None]
    ELSE IF i.res # "Ok" THEN i
         ELSE [res |-> "Ok", lead |-> ld,
               advance |-> 1 + len_bytes(maybe_indirect[1]), ival |-> Some(i.ival)]

header_parts_lead(v, ld) ==
    IF ld.res # "Ok" THEN ld
    ELSE header_parts_extra(ld.lead, Lead_expected_extra(ld.lead),
                         IF Lead_expected_extra(ld.lead) = None THEN ResOk
                         ELSE Validator_resolve_indirect(v, Lead_expected_extra(ld.lead)[1]))

Validator_header_parts(v) == header_parts_lead(v, Validator_lead(v))

\* the result r of a step that may fail, with the validator as the step left it
VStep(v, r) == [v |-> v, r |-> r]
StateErrorOf(e) ==
    IF e = "Panic" THEN [res |-> "Panic"] ELSE [res |-> "StateError", err |-> e]

Validator_consume_data_streamable(v, val) ==
    IF val = None THEN VStep(v, ResOk)
    ELSE LET c == consume(v.data, v.index, "Content", to_size(val[1])) IN
         IF c.r.res # "Ok" THEN VStep(v, c.r)
         ELSE VStep([v EXCEPT !.index = c.index], ResOk)

\* the call into the State and the conversion of its error
VState(v, s) ==
    VStep([v EXCEPT !.ctx = s.ctx], IF s.res = "Ok" THEN ResOk ELSE StateErrorOf(s.res))

Validator_process_header(v, header) ==
    CASE header.h \in {"Positive", "Negative", "Constant", "Byte", "Float"} ->
             VState(v, simple(v.ctx))
      [] header.h \in {"Bytes", "Text"} ->
             LET c == Validator_consume_data_streamable(v, header.val) IN
             IF c.r.res # "Ok" THEN c
             ELSE IF header.h = "Bytes"
                  THEN VState(c.v, bytes(c.v.ctx, header.val))
                  ELSE VState(c.v, text(c.v.ctx, header.val))
      [] header.h = "Array" -> VState(v, array(v.ctx, header.val))
      [] header.h = "Map" -> VState(v, map(v.ctx, header.val))
      [] header.h = "Tag" -> VState(v, tag(v.ctx))
      [] header.h = "Break" -> VState(v, brk(v.ctx))

\* the body of the loop of next() once header_parts() returned hp:
\* Header::from_parts, reader.advance(advance), process_header()?
next_step_parts(v, hp) ==
    IF hp.res # "Ok" THEN VStep(v, hp)
    ELSE Validator_process_header([v EXCEPT !.index = v.index + hp.advance],
                                  Header_from_parts(hp.lead, hp.ival))

Validator_next_step(v) == next_step_parts(v, Validator_header_parts(v))

RECURSIVE Validator_next_loop(_, _)

\* the end of the loop body: return when acceptable(), else loop
next_loop_end(s, start) ==
    IF s.r.res # "Ok" THEN s
    ELSE IF acceptable(s.v.ctx)
         THEN VStep(s.v, [res |-> "Ok",
                          slice |-> slice_from(s.v.data, s.v.index, start),
                          n |-> s.v.index - start])
         ELSE Validator_next_loop(s.v, start)

Validator_next_loop(v, start) == next_loop_end(Validator_next_step(v), start)

Validator_next(v) == Validator_next_loop(v, v.index)

\* Validator::new: assert!(data.len() > 0)
Validator_new(data) ==
    IF Len(data) > 0
    THEN VStep([data |-> data, index |-> 0, ctx |-> new], ResOk)
    ELSE VStep([data |-> data, index |-> 0, ctx |-> new], [res |-> "Panic"])

----------------------------------------------------------------------------
(* src/reader.rs: Reader.  A reader is [data, index]: reader.data and      *)
(* reader.index.  An accessor gives RStep(r, ret): the reader as the call  *)
(* left it and what the call returned.                                     *)

RStep(r, x) == [r |-> r, ret |-> x]

WrongExpectedType(expected, got) ==
    [res |-> "WrongExpectedType", expected |-> expected, got |-> got]

WrongExpectedTypes(expected, got) ==
    [res |-> "WrongExpectedTypes", expected |-> expected, got |-> got]

\* Reader::new: assert!(data.len() > 0)
Reader_new(data) ==
    IF Len(data) > 0
    THEN RStep([data |-> data, index |-> 0], ResOk)
    ELSE RStep([data |-> data, index |-> 0], [res |-> "Panic"])

\* an advance that moves the cursor by twice the bytes of the header
reader_advance_twice(r, n) == [r EXCEPT !.index = r.index + n + n]

\* CborDataReader::advance
reader_advance(r, n) == [r EXCEPT !.index = r.index + n]

\* Reader::expect: the consume of the data reader
Reader_expect(r, context, n) == consume(r.data, r.index, context, n)

Reader_lead(r) ==
    LET hdr == peek(r.data, r.index, "Header", 0, 1) IN
    IF hdr.res # "Ok" THEN hdr ELSE Lead_from_byte(hdr.slice[1])

Reader_resolve_indirect(r, indirect_len) ==
    LET s == peek(r.data, r.index, "IndirectLen", 1, len_bytes(indirect_len)) IN
    IF s.res # "Ok" THEN s
    ELSE [res |-> "Ok",
          ival |-> IndirectValueOf(IndirectWidth(indirect_len), from_be_bytes(s.slice))]

reader_parts_lead(r, ld) ==
    IF ld.res # "Ok" THEN ld
    ELSE header_parts_extra(ld.lead, Lead_expected_extra(ld.lead),
                         IF Lead_expected_extra(ld.lead) = None THEN ResOk
                         ELSE Reader_resolve_indirect(r, Lead_expected_extra(ld.lead)[1]))

Reader_header_parts(r) == reader_parts_lead(r, Reader_lead(r))

\* Reader::header once header_parts() returned hp
header_of_parts(hp) ==
    IF hp.res # "Ok" THEN hp
    ELSE [res |-> "Ok", header |-> Header_from_parts(hp.lead, hp.ival),
          advance |-> hp.advance]

Reader_header(r) == header_of_parts(Reader_header_parts(r))

\* what a Header variant carries
HeaderContent(hdr) ==
    CASE hdr.h = "Constant" -> hdr.c
      [] hdr.h = "Float" -> [fp |-> hdr.fp, bits |-> hdr.bits]
      [] hdr.h = "Break" -> None
      [] OTHER -> hdr.val

\* matches_type!: the pattern is the Header variant hdrty, whatever it carries
matches_type(hdr, ty, hdrty) ==
    IF hdr.h = hdrty
    THEN [res |-> "Ok", val |-> HeaderContent(hdr)]
    ELSE WrongExpectedType(ty, Header_to_type(hdr))

\* the head of every accessor: let (hdr, advance) = self.header()?; the match
\* m on hdr, ?; self.reader.advance(advance); m is looked at only when h is Ok
accessor_head(r, h, m) ==
    IF h.res # "Ok" THEN RStep(r, h)
    ELSE IF m.res # "Ok" THEN RStep(r, m)
    ELSE RStep(reader_advance(r, h.advance), m)

Reader_positive(r) ==
    accessor_head(r, Reader_header(r),
                  matches_type(Reader_header(r).header, "Positive", "Positive"))

Reader_negative(r) ==
    accessor_head(r, Reader_header(r),
                  matches_type(Reader_header(r).header, "Negative", "Negative"))

scalar_match(hdr) ==
    IF hdr.h \in {"Positive", "Negative"}
    THEN [res |-> "Ok", val |-> [scalar |-> hdr.h, v |-> hdr.val]]
    ELSE WrongExpectedTypes(<<"Positive", "Negative">>, Header_to_type(hdr))

Reader_scalar(r) ==
    accessor_head(r, Reader_header(r), scalar_match(Reader_header(r).header))

Reader_byte(r) ==
    accessor_head(r, Reader_header(r),
                  matches_type(Reader_header(r).header, "Byte", "Byte"))

Reader_float(r) ==
    accessor_head(r, Reader_header(r),
                  matches_type(Reader_header(r).header, "Float", "Float"))

constant_match(hdr) ==
    IF hdr.h = "Constant"
    THEN [res |-> "Ok", val |-> hdr.c]
    ELSE WrongExpectedTypes(<<"False", "True", "Null", "Undefined">>, Header_to_type(hdr))

Reader_constant(r) ==
    accessor_head(r, Reader_header(r), constant_match(Reader_header(r).header))

\* Ok(()) in place of the content matched
unit_of(s) ==
    IF s.ret.res # "Ok" THEN s ELSE RStep(s.r, [res |-> "Ok", val |-> "unit"])

Reader_null(r) ==
    unit_of(accessor_head(r, Reader_header(r),
                          matches_type(Reader_header(r).header, "Null", "Constant")))

Reader_undefined(r) ==
    unit_of(accessor_head(r, Reader_header(r),
                          matches_type(Reader_header(r).header, "Undefined", "Constant")))

bool_match(hdr) ==
    IF hdr.h = "Constant" /\ hdr.c \in {"True", "False"}
    THEN [res |-> "Ok", val |-> (hdr.c = "True")]
    ELSE WrongExpectedTypes(<<"False", "True">>, Header_to_type(hdr))

Reader_bool(r) ==
    accessor_head(r, Reader_header(r), bool_match(Reader_header(r).header))

BytesData(b, data) == [b |-> b, data |-> data]

\* the immediate arm of bytes() once the expect returned e
bytes_imm(r, b, e) ==
    IF e.r.res # "Ok" THEN RStep(r, e.r)
    ELSE RStep([r EXCEPT !.index = e.index],
               [res |-> "Ok", val |-> [kind |-> "Imm", data |-> BytesData(b, e.r.slice)]])

RECURSIVE bytes_chunks(_, _)

bytes_chunk_data(r, b, e, out) ==
    IF e.r.res # "Ok" THEN RStep(r, e.r)
    ELSE bytes_chunks([r EXCEPT !.index = e.index], Append(out, BytesData(b, e.r.slice)))

\* the match on the header of a chunk, the cursor r already past that header
bytes_chunk(r, hdr, out) ==
    CASE hdr.h = "Break" -> RStep(r, [res |-> "Ok", val |-> [kind |-> "Chunks", chunks |-> out]])
      [] hdr.h = "Bytes" ->
             IF hdr.val = None THEN RStep(r, [res |-> "BytesChunksInBytesChunks"])
             ELSE bytes_chunk_data(r, hdr.val[1],
                                   Reader_expect(r, "Content", to_size(hdr.val[1])), out)
      [] OTHER -> RStep(r, [res |-> "WrongExpectedTypeInBytes", got |-> Header_to_type(hdr)])

bytes_chunk_header(r, h, out) ==
    IF h.res # "Ok" THEN RStep(r, h)
    ELSE bytes_chunk(reader_advance(r, h.advance), h.header, out)

\* the loop of the indefinite arm of bytes()
bytes_chunks(r, out) == bytes_chunk_header(r, Reader_header(r), out)

\* bytes() after its head s
bytes_content(s) ==
    IF s.ret.res # "Ok" THEN s
    ELSE IF s.ret.val = None THEN bytes_chunks(s.r, <<>>)
    ELSE bytes_imm(s.r, s.ret.val[1],
                   Reader_expect(s.r, "Content", to_size(s.ret.val[1])))

Reader_bytes(r) ==
    bytes_content(accessor_head(r, Reader_header(r),
                                matches_type(Reader_header(r).header, "Bytes", "Bytes")))

\* a continuation byte of UTF-8
Continuation(s, k) == k <= Len(s) /\ s[k] \in 128 .. 191

\* std::str::from_utf8(data).is_ok()
RECURSIVE from_utf8(_)
from_utf8(s) ==
    IF s = <<>> THEN TRUE
    ELSE CASE s[1] < 128 -> from_utf8(SubSeq(s, 2, Len(s)))
           [] s[1] \in 194 .. 223 ->
                  Continuation(s, 2) /\ from_utf8(SubSeq(s, 3, Len(s)))
           [] s[1] \in 224 .. 239 ->
                  /\ Continuation(s, 2) /\ Continuation(s, 3)
                  /\ (s[1] = 224 => s[2] >= 160)
                  /\ (s[1] = 237 => s[2] <= 159)
                  /\ from_utf8(SubSeq(s, 4, Len(s)))
           [] s[1] \in 240 .. 244 ->
                  /\ Continuation(s, 2) /\ Continuation(s, 3) /\ Continuation(s, 4)
                  /\ (s[1] = 240 => s[2] >= 144)
                  /\ (s[1] = 244 => s[2] <= 143)
                  /\ from_utf8(SubSeq(s, 5, Len(s)))
           [] OTHER -> FALSE

TextData(b, data) == [b |-> b, data |-> data]

\* text_data once the expect returned e: the cursor is past the data when
\* the data is not UTF-8
text_data_checked(r, b, e) ==
    IF e.r.res # "Ok" THEN RStep(r, e.r)
    ELSE IF ~from_utf8(e.r.slice)
         THEN RStep([r EXCEPT !.index = e.index], [res |-> "TextUTF8Error"])
         ELSE RStep([r EXCEPT !.index = e.index],
                    [res |-> "Ok", val |-> TextData(b, e.r.slice)])

Reader_text_data(r, b) ==
    text_data_checked(r, b, Reader_expect(r, "Content", to_size(b)))

text_imm(t) ==
    IF t.ret.res # "Ok" THEN t
    ELSE RStep(t.r, [res |-> "Ok", val |-> [kind |-> "Imm", data |-> t.ret.val]])

RECURSIVE text_chunks(_, _)

text_chunk_data(t, out) ==
    IF t.ret.res # "Ok" THEN t ELSE text_chunks(t.r, Append(out, t.ret.val))

text_chunk(r, hdr, out) ==
    CASE hdr.h = "Break" -> RStep(r, [res |-> "Ok", val |-> [kind |-> "Chunks", chunks |-> out]])
      [] hdr.h = "Text" ->
             IF hdr.val = None THEN RStep(r, [res |-> "TextChunksInTextChunks"])
             ELSE text_chunk_data(Reader_text_data(r, hdr.val[1]), out)
      [] OTHER -> RStep(r, [res |-> "WrongExpectedTypeInText", got |-> Header_to_type(hdr)])

text_chunk_header(r, h, out) ==
    IF h.res # "Ok" THEN RStep(r, h)
    ELSE text_chunk(reader_advance(r, h.advance), h.header, out)

\* the loop of the indefinite arm of text()
text_chunks(r, out) == text_chunk_header(r, Reader_header(r), out)

\* text() after its head s
text_content(s) ==
    IF s.ret.res # "Ok" THEN s
    ELSE IF s.ret.val = None THEN text_chunks(s.r, <<>>)
    ELSE text_imm(Reader_text_data(s.r, s.ret.val[1]))

Reader_text(r) ==
    text_content(accessor_head(r, Reader_header(r),
                               matches_type(Reader_header(r).header, "Text", "Text")))

\* advance_data: the payload of a definite Bytes/Text header is consumed
Reader_advance_data(r, header) ==
    IF header.h \in {"Bytes", "Text"} /\ header.val # None
    THEN Reader_expect(r, "Content", to_size(header.val[1]))
    ELSE [r |-> ResOk, index |-> r.index]

state_process_header(c, header) ==
    CASE header.h \in {"Positive", "Negative", "Constant", "Byte", "Float"} -> simple(c)
      [] header.h = "Bytes" -> bytes(c, header.val)
      [] header.h = "Text" -> text(c, header.val)
      [] header.h = "Array" -> array(c, header.val)
      [] header.h = "Map" -> map(c, header.val)
      [] header.h = "Tag" -> tag(c)
      [] header.h = "Break" -> brk(c)

RECURSIVE slice_loop(_, _, _)

\* the end of the loop body of cbor_slice_neutral: break when acceptable()
slice_state(r, s, start) ==
    IF s.res # "Ok" THEN RStep(r, StateErrorOf(s.res))
    ELSE IF acceptable(s.ctx)
         THEN RStep(r, [res |-> "Ok", slice |-> slice_from(r.data, r.index, start)])
         ELSE slice_loop(r, s.ctx, start)

slice_data(r, header, e, c, start) ==
    IF e.r.res # "Ok" THEN RStep(r, e.r)
    ELSE slice_state([r EXCEPT !.index = e.index], state_process_header(c, header), start)

slice_header(r, h, c, start) ==
    IF h.res # "Ok" THEN RStep(r, h)
    ELSE slice_data(reader_advance(r, h.advance), h.header,
                    Reader_advance_data(reader_advance(r, h.advance), h.header), c, start)

\* the loop of cbor_slice_neutral with the State's stack c
slice_loop(r, c, start) == slice_header(r, Reader_header(r), c, start)

Reader_cbor_slice_neutral(r) == slice_loop(r, new, r.index)

\* one turn of the loop of cbor_slice_neutral gives [r, ctx, ret]: the reader
\* and the State's stack as the turn left them, and ret the error it returned
\* with or Ok
STurn(r, c, x) == [r |-> r, ctx |-> c, ret |-> x]

slice_turn_state(r, s) ==
    STurn(r, s.ctx, IF s.res # "Ok" THEN StateErrorOf(s.res) ELSE ResOk)

slice_turn_data(r, header, e, c) ==
    IF e.r.res # "Ok" THEN STurn(r, c, e.r)
    ELSE slice_turn_state([r EXCEPT !.index = e.index], state_process_header(c, header))

slice_turn_header(r, h, c) ==
    IF h.res # "Ok" THEN STurn(r, c, h)
    ELSE slice_turn_data(reader_advance(r, h.advance), h.header,
                         Reader_advance_data(reader_advance(r, h.advance), h.header), c)

\* a turn that decodes the header and leaves the cursor before it
slice_turn_in_place(r, c) ==
    STurn(r, slice_turn_header(r, Reader_header(r), c).ctx,
          slice_turn_header(r, Reader_header(r), c).ret)

\* the body of the loop of cbor_slice_neutral, up to its test of acceptable()
slice_turn(r, c) == slice_turn_header(r, Reader_header(r), c)

Type_from_lead(ld) ==
    CASE ld.l \in {"ByteImm", "ByteI1"} -> "Byte"
      [] ld.l \in {"FP16", "FP32", "FP64"} -> "Float"
      [] OTHER -> ld.l

type_of_lead(ld) ==
    IF ld.res # "Ok" THEN ld ELSE [res |-> "Ok", ty |-> Type_from_lead(ld.lead)]

Reader_peek_type(r) == type_of_lead(Reader_lead(r))

ArrayOf(len_encoding, elements) == [len_encoding |-> len_encoding, elements |-> elements]

RECURSIVE array_indefinite(_, _)
RECURSIVE array_definite(_, _, _, _)

array_indefinite_element(s, elements) ==
    IF s.ret.res # "Ok" THEN s
    ELSE array_indefinite(s.r, Append(elements, s.ret.slice))

\* while self.peek_type()? != Type::Break, then the break is skipped
array_indefinite_peek(r, t, elements) ==
    IF t.res # "Ok" THEN RStep(r, t)
    ELSE IF t.ty = "Break"
         THEN RStep(reader_advance(r, 1), [res |-> "Ok", val |-> ArrayOf(None, elements)])
         ELSE array_indefinite_element(Reader_cbor_slice_neutral(r), elements)

array_indefinite(r, elements) == array_indefinite_peek(r, Reader_peek_type(r), elements)

array_definite_element(s, len, n, elements) ==
    IF s.ret.res # "Ok" THEN s
    ELSE array_definite(s.r, len, n - 1, Append(elements, s.ret.slice))

\* for _ in 0..sz, n turns of it still to come
array_definite(r, len, n, elements) ==
    IF n = 0 THEN RStep(r, [res |-> "Ok", val |-> ArrayOf(len, elements)])
    ELSE array_definite_element(Reader_cbor_slice_neutral(r), len, n, elements)

\* array() after its head s
array_content(s) ==
    IF s.ret.res # "Ok" THEN s
    ELSE IF s.ret.val = None THEN array_indefinite(s.r, <<>>)
    ELSE array_definite(s.r, s.ret.val, to_size(s.ret.val[1]), <<>>)

Reader_array(r) ==
    array_content(accessor_head(r, Reader_header(r),
                                matches_type(Reader_header(r).header, "Array", "Array")))

MapOf(len_encoding, elements) == [len_encoding |-> len_encoding, elements |-> elements]

RECURSIVE map_indefinite(_, _)
RECURSIVE map_definite(_, _, _, _)

map_indefinite_value(key, s, elements) ==
    IF s.ret.res # "Ok" THEN s
    ELSE map_indefinite(s.r, Append(elements, <<key, s.ret.slice>>))

map_indefinite_key(s, elements) ==
    IF s.ret.res # "Ok" THEN s
    ELSE map_indefinite_value(s.ret.slice, Reader_cbor_slice_neutral(s.r), elements)

map_indefinite_peek(r, t, elements) ==
    IF t.res # "Ok" THEN RStep(r, t)
    ELSE IF t.ty = "Break"
         THEN RStep(reader_advance(r, 1), [res |-> "Ok", val |-> MapOf(None, elements)])
         ELSE map_indefinite_key(Reader_cbor_slice_neutral(r), elements)

map_indefinite(r, elements) == map_indefinite_peek(r, Reader_peek_type(r), elements)

map_definite_value(key, s, len, n, elements) ==
    IF s.ret.res # "Ok" THEN s
    ELSE map_definite(s.r, len, n - 1, Append(elements, <<key, s.ret.slice>>))

map_definite_key(s, len, n, elements) ==
    IF s.ret.res # "Ok" THEN s
    ELSE map_definite_value(s.ret.slice, Reader_cbor_slice_neutral(s.r), len, n, elements)

map_definite(r, len, n, elements) ==
    IF n = 0 THEN RStep(r, [res |-> "Ok", val |-> MapOf(len, elements)])
    ELSE map_definite_key(Reader_cbor_slice_neutral(r), len, n, elements)

\* map() after its head s
map_content(s) ==
    IF s.ret.res # "Ok" THEN s
    ELSE IF s.ret.val = None THEN map_indefinite(s.r, <<>>)
    ELSE map_definite(s.r, s.ret.val, to_size(s.ret.val[1]), <<>>)

Reader_map(r) ==
    map_content(accessor_head(r, Reader_header(r),
                              matches_type(Reader_header(r).header, "Map", "Map")))

tag_data(tag_val, s) ==
    IF s.ret.res # "Ok" THEN s
    ELSE RStep(s.r, [res |-> "Ok", val |-> [tag_val |-> tag_val, data |-> s.ret.slice]])

\* tag() after its head s
tag_content(s) ==
    IF s.ret.res # "Ok" THEN s
    ELSE tag_data(s.ret.val, Reader_cbor_slice_neutral(s.r))

Reader_tag(r) ==
    tag_content(accessor_head(r, Reader_header(r),
                              matches_type(Reader_header(r).header, "Tag", "Tag")))

----------------------------------------------------------------------------
(* src/reader.rs: Reader::data.  A Data is [d, val]: the variant and what  *)
(* it carries.                                                             *)

DataOf(d, val) == [d |-> d, val |-> val]

\* .map(Data::X) on what the accessor gave
data_map(s, d) ==
    IF s.ret.res # "Ok" THEN s
    ELSE RStep(s.r, [res |-> "Ok", val |-> DataOf(d, s.ret.val)])

\* .map(|_| Data::X) on what constant() gave
data_constant(s, d) ==
    IF s.ret.res # "Ok" THEN s
    ELSE RStep(s.r, [res |-> "Ok", val |-> DataOf(d, "unit")])

\* data() once peek_type returned t
data_of_type(r, t) ==
    IF t.res # "Ok" THEN RStep(r, t)
    ELSE CASE t.ty = "Positive" -> data_map(Reader_positive(r), "Positive")
           [] t.ty = "Negative" -> data_map(Reader_negative(r), "Negative")
           [] t.ty = "Bytes" -> data_map(Reader_bytes(r), "Bytes")
           [] t.ty = "Text" -> data_map(Reader_text(r), "Text")
           [] t.ty = "Array" -> data_map(Reader_array(r), "Array")
           [] t.ty = "Map" -> data_map(Reader_map(r), "Map")
           [] t.ty = "Tag" -> data_map(Reader_tag(r), "Tag")
           [] t.ty \in {"False", "True", "Null", "Undefined"} ->
                  data_constant(Reader_constant(r), t.ty)
           [] t.ty = "Float" -> data_map(Reader_float(r), "Float")
           [] t.ty = "Byte" -> data_map(Reader_byte(r), "Byte")
           [] t.ty = "Break" -> RStep(r, [res |-> "UnexpectedBreakType"])

Reader_data(r) == data_of_type(r, Reader_peek_type(r))

----------------------------------------------------------------------------
(* src/decode.rs: DecodeError and Decode.  A DecodeError is the result     *)
(* [res |-> "DecodeError", context, error]; context is the Vec in the      *)
(* order of its pushes and error is a DecodeErrorKind, [kind, ...].        *)

KindReaderError(e) == [kind |-> "ReaderError", err |-> e]

KindReaderNotTerminated(n) == [kind |-> "ReaderNotTerminated", remaining_bytes |-> n]

KindOutOfRange(min, max, got) ==
    [kind |-> "OutOfRange", min |-> min, max |-> max, got |-> got]

\* DecodeError::new::<T>, new_str and new_string: one entry of context
DecodeError_new(name, e) == [res |-> "DecodeError", context |-> <<name>>, error |-> e]

\* DecodeError::push::<T>, push_str and push_string: self.context.push
DecodeError_push(e, name) == [e EXCEPT !.context = Append(e.context, name)]

\* DecodeError::context
DecodeError_context(e) == e.context

RECURSIVE join_rev(_, _, _)

\* the loop of context_as_path over the entries i, i - 1 .. 1 of context,
\* s the String built so far
join_rev(context, i, s) ==
    IF i = 0 THEN s
    ELSE join_rev(context, i - 1,
                  (IF s = "" THEN s ELSE s \o "->") \o context[i])

context_as_path(e) == join_rev(e.context, Len(e.context), "")

\* .map_err(DecodeErrorKind::ReaderError).map_err(|e| e.context::<T>())
reader_error_context(s, name) ==
    IF s.ret.res = "Ok" THEN s
    ELSE RStep(s.r, DecodeError_new(name, KindReaderError(s.ret)))

\* std::any::type_name::<T>() of the types decoded here
type_name(ty) ==
    CASE ty = "DataOwned" -> "cbored::types::DataOwned"
      [] ty = "Vec<u8>" -> "alloc::vec::Vec<u8>"
      [] OTHER -> ty

\* the most a u8, a u16 holds: the literal of assert_range!
range_max(ty) == IF ty = "u8" THEN u64_from(255) ELSE u64_from(65535)

\* let val = pos.to_u64(); assert_range!(val <= max); Ok(val as T)
decode_ranged(s, ty) ==
    IF s.ret.res # "Ok" THEN s
    ELSE IF u64_lt(range_max(ty), to_u64(s.ret.val))
         THEN RStep(s.r, DecodeError_new(type_name(ty),
                             KindOutOfRange(u64_from(0), range_max(ty), to_u64(s.ret.val))))
         ELSE RStep(s.r, [res |-> "Ok", val |-> as_usize(to_u64(s.ret.val))])

\* Ok(pos.to_u64())
decode_u64(s) ==
    IF s.ret.res # "Ok" THEN s
    ELSE RStep(s.r, [res |-> "Ok", val |-> to_u64(s.ret.val)])

\* <T as Decode>::decode for T of bool, u8, u16, u64, Vec<u8>, DataOwned
Decode_decode(ty, r) ==
    CASE ty = "bool" -> reader_error_context(Reader_bool(r), type_name(ty))
      [] ty \in {"u8", "u16"} ->
             decode_ranged(reader_error_context(Reader_positive(r), type_name(ty)), ty)
      [] ty = "u64" -> decode_u64(reader_error_context(Reader_positive(r), type_name(ty)))
      [] ty = "Vec<u8>" -> reader_error_context(Reader_bytes(r), type_name(ty))
      [] ty = "DataOwned" -> reader_error_context(Reader_data(r), type_name(ty))

RECURSIVE decode_vec_elements(_, _, _, _, _)

\* .map_err(|e| e.push_string(format!("{}", i)).push_str("Vec"))?; out.push(v)
decode_vec_element(ty, r, elements, i, out, v) ==
    IF v.ret.res = "Panic" THEN RStep(r, v.ret)
    ELSE IF v.ret.res # "Ok"
         THEN RStep(r, DecodeError_push(DecodeError_push(v.ret, ToString(i)), "Vec"))
         ELSE decode_vec_elements(ty, r, elements, i + 1, Append(out, v.ret.val))

\* Array::iter gives v.reader() of each element: Reader::new on its slice
decode_vec_inner(ty, inner) ==
    IF inner.ret.res # "Ok" THEN inner ELSE Decode_decode(ty, inner.r)

\* for (i, mut inner_reader) in a.iter().enumerate(), from the turn i on
decode_vec_elements(ty, r, elements, i, out) ==
    IF i >= Len(elements) THEN RStep(r, [res |-> "Ok", val |-> out])
    ELSE decode_vec_element(ty, r, elements, i, out,
                            decode_vec_inner(ty, Reader_new(elements[i + 1])))

\* decode_vec after reader.array() gave a
decode_vec_array(ty, a) ==
    IF a.ret.res # "Ok" THEN a
    ELSE decode_vec_elements(ty, a.r, a.ret.val.elements, 0, <<>>)

decode_vec(ty, r) ==
    decode_vec_array(ty, RStep(Reader_array(r).r,
                               IF Reader_array(r).ret.res = "Ok" THEN Reader_array(r).ret
                               ELSE DecodeError_new("Vec", KindReaderError(Reader_array(r).ret))))

\* Reader::expect_finished; next_byte is the byte under the cursor
Reader_expect_finished(r) ==
    IF remaining_bytes(r.data, r.index) # 0
    THEN [res |-> "NotTerminated", at |-> r.index,
          remaining_bytes |-> remaining_bytes(r.data, r.index),
          next_byte |-> r.data[r.index + 1]]
    ELSE ResOk

\* Reader::decode
Reader_decode(ty, r) == Decode_decode(ty, r)

\* Reader::decode_one once decode() gave s
decode_one_end(ty, s) ==
    IF s.ret.res # "Ok" THEN s
    ELSE IF remaining_bytes(s.r.data, s.r.index) = 0 THEN s
    ELSE RStep(s.r, DecodeError_new(type_name(ty),
                        KindReaderNotTerminated(remaining_bytes(s.r.data, s.r.index))))

\* decode_one answering although bytes remain
decode_one_ignoring_rest(ty, r) == Reader_decode(ty, r)

Reader_decode_one(ty, r) == decode_one_end(ty, Reader_decode(ty, r))

\* decode_from_bytes after reader.decode() gave s: expect_finished
from_bytes_end(ty, s, f) ==
    IF s.ret.res # "Ok" THEN s
    ELSE IF f.res # "Ok" THEN RStep(s.r, DecodeError_new(type_name(ty), KindReaderError(f)))
    ELSE s

\* decode_from_bytes after Reader::new gave n
from_bytes_reader(ty, n) ==
    IF n.ret.res # "Ok" THEN n
    ELSE from_bytes_end(ty, Reader_decode(ty, n.r),
                        Reader_expect_finished(Reader_decode(ty, n.r).r))

decode_from_bytes(ty, slice) == from_bytes_reader(ty, Reader_new(slice))

----------------------------------------------------------------------------
(* src/writer.rs: Writer.  A writer is [res, data]: data is Writer.data    *)
(* and res is "Ok", or "Panic" once an assert! of the call failed; a       *)
(* write on a panicked writer is never reached and leaves it as it is.     *)

WOk(data) == [res |-> "Ok", data |-> data]
WPanic(data) == [res |-> "Panic", data |-> data]

Writer_new == WOk(<<>>)

\* Writer::finalize
finalize(w) == w.data

\* Major::to_value
Major_to_value(m) ==
    CASE m = "Positive" -> 0
      [] m = "Negative" -> 1
      [] m = "Bytes" -> 2
      [] m = "Text" -> 3
      [] m = "Array" -> 4
      [] m = "Map" -> 5
      [] m = "Tag" -> 6
      [] m = "Other" -> 7

\* Major::to_high_bits: to_value() << 5
to_high_bits(m) == (Major_to_value(m) * 32) % 256

\* Content::to_byte / ContentStream::to_byte fail their assert!(v <= 0x17)
to_byte_panics(c) == c.c = "Imm" /\ c.v > 23

\* Content::to_byte / ContentStream::to_byte
to_byte(c) ==
    CASE c.c = "Imm" -> c.v
      [] c.c = "Indirect" /\ c.ilen = "I1" -> 24
      [] c.c = "Indirect" /\ c.ilen = "I2" -> 25
      [] c.c = "Indirect" /\ c.ilen = "I4" -> 26
      [] c.c = "Indirect" /\ c.ilen = "I8" -> 27
      [] c.c = "Stream" -> 31

\* the 8 big-endian bytes of a u64
u64_bytes(v) == <<v[1] \div 256, v[1] % 256, v[2] \div 256, v[2] % 256,
                  v[3] \div 256, v[3] % 256, v[4] \div 256, v[4] % 256>>

\* uN::to_be_bytes, N = 8 * n
to_be_bytes(v, n) == SubSeq(u64_bytes(v), 9 - n, 8)

append_byte(w, b) == IF w.res # "Ok" THEN w ELSE WOk(Append(w.data, b))

append_slice(w, b) == IF w.res # "Ok" THEN w ELSE WOk(w.data \o b)

write_break(w) == append_byte(w, 255)

\* the match of write_value: what follows the lead byte
value_payload(v) ==
    CASE v.tier = "Imm" -> <<>>
      [] v.tier = "U8" -> to_be_bytes(v.v, 1)
      [] v.tier = "U16" -> to_be_bytes(v.v, 2)
      [] v.tier = "U32" -> to_be_bytes(v.v, 4)
      [] v.tier = "U64" -> to_be_bytes(v.v, 8)

\* m.to_high_bits() | content byte: the two have no bit in common
write_value(w, m, v) ==
    IF w.res # "Ok" THEN w
    ELSE IF to_byte_panics(to_lead_content(v)) THEN WPanic(w.data)
    ELSE append_slice(append_byte(w, to_high_bits(m) + to_byte(to_lead_content(v))),
                      value_payload(v))

\* ContentStream::from(v.map(|c| c.to_lead_content()))
ContentStream_from(v) == IF v = None THEN ContentStreamStream ELSE to_lead_content(v[1])

write_value_stream(w, m, v) ==
    IF w.res # "Ok" THEN w
    ELSE IF to_byte_panics(ContentStream_from(v)) THEN WPanic(w.data)
    ELSE append_slice(append_byte(w, to_high_bits(m) + to_byte(ContentStream_from(v))),
                      IF v = None THEN <<>> ELSE value_payload(v[1]))

\* a StructureLength is an Option: None is Indefinite, Some(v) is Definite(v)
is_indefinite(len) == len = None

write_structure_length(w, m, len) == write_value_stream(w, m, len)

Writer_positive(w, d) == write_value(w, "Positive", d)

Writer_negative(w, d) == write_value(w, "Negative", d)

Writer_scalar(w, d) ==
    IF d.scalar = "Positive" THEN Writer_positive(w, d.v) ELSE Writer_negative(w, d.v)

\* 0xe0 + v cannot overflow once v < 0x14
Writer_byte(w, d) ==
    IF w.res # "Ok" THEN w
    ELSE IF d.tier = "Imm"
         THEN IF to_u8(d) < 20 THEN append_byte(w, 224 + to_u8(d)) ELSE WPanic(w.data)
         ELSE append_byte(append_byte(w, 248), to_u8(d))

\* for elem in vec { write_value(m, elem.0); append_slice(elem.1) }
RECURSIVE write_chunks(_, _, _)
write_chunks(w, m, vec) ==
    IF vec = <<>> THEN w
    ELSE write_chunks(append_slice(write_value(w, m, vec[1].b), vec[1].data), m, Tail(vec))

\* Writer::bytes and Writer::text, m the major type written
write_streamable(w, m, d) ==
    IF d.kind = "Imm"
    THEN append_slice(write_value(w, m, d.data.b), d.data.data)
    ELSE write_break(write_chunks(write_value_stream(w, m, None), m, d.chunks))

Writer_bytes(w, d) == write_streamable(w, "Bytes", d)

Writer_text(w, d) == write_streamable(w, "Text", d)

\* for v in elements { append_slice(&v.0) }
RECURSIVE append_slices(_, _)
append_slices(w, elements) ==
    IF elements = <<>> THEN w
    ELSE append_slices(append_slice(w, elements[1]), Tail(elements))

close_structure(w, len) == IF is_indefinite(len) THEN write_break(w) ELSE w

Writer_array(w, d) ==
    close_structure(append_slices(write_structure_length(w, "Array", d.len_encoding),
                                  d.elements),
                    d.len_encoding)

\* for (k, v) in elements { append_slice(&k.0); append_slice(&v.0) }
RECURSIVE append_pairs(_, _)
append_pairs(w, elements) ==
    IF elements = <<>> THEN w
    ELSE append_pairs(append_slice(append_slice(w, elements[1][1]), elements[1][2]),
                      Tail(elements))

Writer_map(w, d) ==
    close_structure(append_pairs(write_structure_length(w, "Map", d.len_encoding),
                                 d.elements),
                    d.len_encoding)

Writer_tag(w, d) == append_slice(write_value(w, "Tag", d.tag_val), d.data)

Writer_constant(w, d) ==
    CASE d = "False" -> append_byte(w, 244)
      [] d = "True" -> append_byte(w, 245)
      [] d = "Null" -> append_byte(w, 246)
      [] d = "Undefined" -> append_byte(w, 247)

Writer_bool(w, d) == IF d THEN Writer_constant(w, "True") ELSE Writer_constant(w, "False")

Writer_float(w, d) ==
    CASE d.fp = "FP16" -> append_slice(append_byte(w, 249), to_be_bytes(d.bits, 2))
      [] d.fp = "FP32" -> append_slice(append_byte(w, 250), to_be_bytes(d.bits, 4))
      [] d.fp = "FP64" -> append_slice(append_byte(w, 251), to_be_bytes(d.bits, 8))

Writer_data(w, d) ==
    CASE d.d = "Positive" -> Writer_positive(w, d.val)
      [] d.d = "Negative" -> Writer_negative(w, d.val)
      [] d.d = "Float" -> Writer_float(w, d.val)
      [] d.d = "Byte" -> Writer_byte(w, d.val)
      [] d.d = "Bytes" -> Writer_bytes(w, d.val)
      [] d.d = "Text" -> Writer_text(w, d.val)
      [] d.d = "Array" -> Writer_array(w, d.val)
      [] d.d = "Map" -> Writer_map(w, d.val)
      [] d.d = "Tag" -> Writer_tag(w, d.val)
      [] d.d \in {"True", "False", "Null", "Undefined"} -> Writer_constant(w, d.d)

\* a closure f given to a builder is the list of the Data it writes, in order
RECURSIVE call_closure(_, _)
call_closure(w, f) ==
    IF f = <<>> THEN w ELSE call_closure(Writer_data(w, f[1]), Tail(f))

\* an array_build that writes the break after every array
array_build_always_break(w, len, f) ==
    write_break(call_closure(write_structure_length(w, "Array", len), f))

Writer_array_build(w, len, f) ==
    close_structure(call_closure(write_structure_length(w, "Array", len), f), len)

Writer_map_build(w, len, f) ==
    close_structure(call_closure(write_structure_length(w, "Map", len), f), len)

Writer_tag_build(w, tag_val, f) == call_closure(write_value(w, "Tag", tag_val), f)

\* an encode that writes every unsigned integer in the 8-byte tier
encode_unsigned_as_u64(w, v) == Writer_positive(w, ValueOf("U64", v))

\* impl Encode for u8/u16/u32/u64, v already widened to u64 (`*self as u64`)
encode_unsigned(w, v) == Writer_positive(w, canonical(v))

\* encode_to_bytes of an unsigned integer
encode_to_bytes(v) == finalize(encode_unsigned(Writer_new, v))

----------------------------------------------------------------------------
(* The State explored through its public operations *)

Counts == 0 .. MaxCount
ValueStreams == {None} \cup {Some(ValueU64(n)) : n \in Counts}

OpOf(name, v) == [name |-> name, v |-> v]

IsScalarOp(o) == o.name = "simple" \/ (o.name \in {"bytes", "text"} /\ o.v # None)

\* the history variables root and fed after operation o, called on stack c
\* with result r
MaxFed == 2 * MaxCount + 1
Track(o, c, r) ==
    IF c = <<>> /\ o.name \in {"array", "map"} /\ o.v # None /\ r.res = "Ok"
    THEN /\ root' = Some([kind |-> o.name, n |-> to_size(o.v[1])])
         /\ fed' = 0
    ELSE IF root # None /\ IsScalarOp(o) /\ r.res = "Ok" /\ fed < MaxFed
         THEN /\ root' = root
              /\ fed' = fed + 1
         ELSE /\ root' = None
              /\ fed' = 0

Apply(o, r) ==
    /\ Len(r.ctx) <= MaxDepth
    /\ ctx' = r.ctx
    /\ prev' = ctx
    /\ op' = o
    /\ ret' = r.res
    /\ Track(o, ctx, r)

StSimple ==
    /\ Apply(OpOf("simple", None), simple(ctx))
    /\ UNCHANGED <<validatorVars, readerVars, writerVars>>

StBytes ==
    \E v \in {None, Some(ValueU64(1))} :
        /\ Apply(OpOf("bytes", v), bytes(ctx, v))
        /\ UNCHANGED <<validatorVars, readerVars, writerVars>>

StText ==
    \E v \in {None, Some(ValueU64(1))} :
        /\ Apply(OpOf("text", v), text(ctx, v))
        /\ UNCHANGED <<validatorVars, readerVars, writerVars>>

StArray ==
    \E v \in ValueStreams :
        /\ Apply(OpOf("array", v), array(ctx, v))
        /\ UNCHANGED <<validatorVars, readerVars, writerVars>>

StMap ==
    \E v \in ValueStreams :
        /\ Apply(OpOf("map", v), map(ctx, v))
        /\ UNCHANGED <<validatorVars, readerVars, writerVars>>

StTag ==
    /\ Apply(OpOf("tag", None), tag(ctx))
    /\ UNCHANGED <<validatorVars, readerVars, writerVars>>

StBrk ==
    /\ Apply(OpOf("brk", None), brk(ctx))
    /\ UNCHANGED <<validatorVars, readerVars, writerVars>>

IdleValidator == [data |-> <<>>, index |-> 0, ctx |-> <<>>]
IdleReader == [data |-> <<>>, index |-> 0]

InitState ==
    /\ ctx = new
    /\ prev = new
    /\ op = OpOf("new", None)
    /\ ret = "Ok"
    /\ root = None
    /\ fed = 0
    /\ vd = IdleValidator
    /\ vret = [res |-> "None"]
    /\ calls = <<>>
    /\ rd = IdleReader
    /\ rprev = IdleReader
    /\ rop = "none"
    /\ rret = [res |-> "None"]
    /\ wd = <<>>
    /\ wprev = <<>>
    /\ wlog = <<>>
    /\ wret = "Ok"

Init == InitState

NextState == StSimple \/ StBytes \/ StText \/ StArray \/ StMap \/ StTag \/ StBrk

SpecState == InitState /\ [][NextState]_vars

----------------------------------------------------------------------------
(* A Validator built over an input and asked for item after item *)

\* 0x01 positive 1, 0x19 positive with 2 value bytes, 0x1c reserved,
\* 0x41/0x43 bytes of length 1/3, 0x5f indefinite bytes, 0x61 text of length 1,
\* 0x82 array of 2, 0x9f indefinite array, 0xa1 map of 1 pair,
\* 0xbf indefinite map, 0xc2 tag 2, 0xff break
ByteAlphabet == {1, 25, 28, 65, 67, 95, 97, 130, 159, 161, 191, 194, 255}

SeqsUpTo(S, n) == UNION {[1 .. k -> S] : k \in 0 .. n}

\* the inputs of the tests of src/validate.rs, and lead bytes of a reserved
\* content (28 .. 30) or of the content 31 on a major type with no indefinite
\* form
TestVectors ==
    { <<131, 1, 130, 2, 3, 130, 4, 5>>,
      <<159, 1, 130, 2, 3, 159, 4, 5, 255, 255>>,
      <<159, 1, 130, 2, 3, 130, 4, 5, 255>>,
      <<131, 1, 130, 2, 3, 159, 4, 5, 255>>,
      <<131, 1, 159, 2, 3, 255, 130, 4, 5>>,
      <<194, 73, 1, 0, 0, 0, 0, 0, 0, 0, 0>>,
      <<31>>, <<63, 1>>, <<223, 1, 1>>, <<252>>, <<94, 1>>, <<157>>, <<130, 1, 222>> }

Inputs == SeqsUpTo(ByteAlphabet, MaxLen) \cup TestVectors

NoResult == [res |-> "None"]

ValidatorNew ==
    /\ vret = NoResult
    /\ \E data \in Inputs :
          LET s == Validator_new(data) IN
          /\ vd' = (IF s.r.res = "Ok" THEN s.v ELSE vd)
          /\ vret' = s.r
    /\ calls' = <<>>
    /\ UNCHANGED <<stateVars, readerVars, writerVars>>

ValidatorNext ==
    /\ vret.res \notin {"None", "Panic"}
    /\ Len(calls) < MaxCalls
    /\ LET s == Validator_next(vd) IN
       /\ vd' = s.v
       /\ vret' = s.r
       /\ calls' = Append(calls, [from |-> vd.index, ret |-> s.r])
    /\ UNCHANGED <<stateVars, readerVars, writerVars>>

NextValidator == ValidatorNew \/ ValidatorNext

SpecValidator == InitState /\ [][NextValidator]_vars

----------------------------------------------------------------------------
(* A Reader built over an input and read with its typed accessors *)

\* the longest input enumerated over ReaderAlphabet for a Reader
MaxReadLen == 2

\* 0x01 positive 1, 0x20 negative -1, 0x41 bytes of length 1, 0x5f indefinite
\* bytes, 0x61 text of length 1, 0x81 array of 1, 0x9f indefinite array,
\* 0xa1 map of 1 pair, 0xc2 tag 2, 0xf0 simple value 16, 0xf5 true, 0xf6 null,
\* 0xf9 half float, 0xff break
ReaderAlphabet == {1, 32, 65, 95, 97, 129, 159, 161, 194, 240, 245, 246, 249, 255}

\* the inputs of tests::test_err_reading_type and tests::test_decode of
\* src/lib.rs, one nested input for each composite accessor, and integers
\* encoded in a wider tier than they need, and arrays and maps of integers,
\* of a map, of an array and a tag
ReaderVectors ==
    { <<245, 24, 124>>,
      <<131, 1, 7, 130, 26, 65, 112, 203, 23, 244>>,
      <<129, 65, 1>>,
      <<159, 1, 32, 255>>,
      <<161, 1, 97, 97>>,
      <<191, 1, 32, 255>>,
      <<194, 129, 1>>,
      <<95, 65, 1, 65, 1, 255>>,
      <<127, 97, 97, 255>>,
      <<249, 60, 0>>,
      <<24, 5>>, <<56, 5>>, <<25, 0, 5>>, <<25, 1, 0>>, <<57, 1, 0>>,
      <<27, 0, 0, 0, 0, 0, 0, 0, 5>>, <<24>>, <<26, 0, 0, 0, 5, 245>>,
      <<131, 1, 2, 3>>, <<159, 1, 2, 255>>, <<129, 161, 1, 2>>,
      <<162, 1, 129, 2, 3, 194, 4>>, <<191, 1, 161, 2, 3, 255>> }

ReaderInputs == SeqsUpTo(ReaderAlphabet, MaxReadLen) \cup ReaderVectors

ReaderNew ==
    /\ rop = "none"
    /\ \E data \in ReaderInputs :
          /\ rd' = Reader_new(data).r
          /\ rret' = Reader_new(data).ret
    /\ rprev' = rd
    /\ rop' = "new"
    /\ UNCHANGED <<stateVars, validatorVars, writerVars>>

\* accessor name called on the Reader, s what it gives
Call(name, s) ==
    /\ rop # "none"
    /\ rret.res # "Panic"
    /\ rd' = s.r
    /\ rprev' = rd
    /\ rop' = name
    /\ rret' = s.ret

RdPositive ==
    /\ Call("positive", Reader_positive(rd))
    /\ UNCHANGED <<stateVars, validatorVars, writerVars>>

RdNegative ==
    /\ Call("negative", Reader_negative(rd))
    /\ UNCHANGED <<stateVars, validatorVars, writerVars>>

RdScalar ==
    /\ Call("scalar", Reader_scalar(rd))
    /\ UNCHANGED <<stateVars, validatorVars, writerVars>>

RdByte ==
    /\ Call("byte", Reader_byte(rd))
    /\ UNCHANGED <<stateVars, validatorVars, writerVars>>

RdFloat ==
    /\ Call("float", Reader_float(rd))
    /\ UNCHANGED <<stateVars, validatorVars, writerVars>>

RdConstant ==
    /\ Call("constant", Reader_constant(rd))
    /\ UNCHANGED <<stateVars, validatorVars, writerVars>>

RdBool ==
    /\ Call("bool", Reader_bool(rd))
    /\ UNCHANGED <<stateVars, validatorVars, writerVars>>

RdNull ==
    /\ Call("null", Reader_null(rd))
    /\ UNCHANGED <<stateVars, validatorVars, writerVars>>

RdUndefined ==
    /\ Call("undefined", Reader_undefined(rd))
    /\ UNCHANGED <<stateVars, validatorVars, writerVars>>

RdBytes ==
    /\ Call("bytes", Reader_bytes(rd))
    /\ UNCHANGED <<stateVars, validatorVars, writerVars>>

RdText ==
    /\ Call("text", Reader_text(rd))
    /\ UNCHANGED <<stateVars, validatorVars, writerVars>>

RdArray ==
    /\ Call("array", Reader_array(rd))
    /\ UNCHANGED <<stateVars, validatorVars, writerVars>>

RdMap ==
    /\ Call("map", Reader_map(rd))
    /\ UNCHANGED <<stateVars, validatorVars, writerVars>>

RdTag ==
    /\ Call("tag", Reader_tag(rd))
    /\ UNCHANGED <<stateVars, validatorVars, writerVars>>

NextReader ==
    \/ ReaderNew
    \/ RdPositive \/ RdNegative \/ RdScalar \/ RdByte \/ RdFloat
    \/ RdConstant \/ RdBool \/ RdNull \/ RdUndefined
    \/ RdBytes \/ RdText \/ RdArray \/ RdMap \/ RdTag

SpecReader == InitState /\ [][NextReader]_vars

----------------------------------------------------------------------------
(* A Writer asked for write after write *)

\* the most writes made on one Writer
MaxWrites == 2

\* 0, 1, 23, 24, 124, 255, 256, 2^16 - 1, 2^16, 2^16 + 1, 0x4170cb17, 2^32 - 1,
\* 2^32, 2^32 + 1, 2^48, 2^64 - 1
U64Samples ==
    { u64_from(0), u64_from(1), u64_from(23), u64_from(24), u64_from(124),
      u64_from(255), u64_from(256), u64_from(65535),
      <<0, 0, 1, 0>>, <<0, 0, 1, 1>>, <<0, 0, 16752, 51991>>, <<0, 0, 65535, 65535>>,
      <<0, 1, 0, 0>>, <<0, 1, 0, 1>>, <<1, 0, 0, 0>>, <<65535, 65535, 65535, 65535>> }

\* the first write of a Writer is drawn from all of S, a later one from the
\* few members of S that are in Few
Drawn(S, Few) == IF wlog = <<>> THEN S ELSE S \cap Few

\* integers encoded in a wider tier than they need, and one that is not
WideInputs ==
    { <<24, 5>>, <<25, 0, 5>>, <<26, 0, 0, 0, 5>>, <<27, 0, 0, 0, 0, 0, 0, 0, 5>>,
      <<25, 1, 0>>, <<56, 5>>, <<57, 0, 5>>, <<57, 1, 0>> }

\* what Reader::positive() / Reader::negative() give on the inputs
ReadValues(S, major) ==
    { Reader_scalar(Reader_new(b).r).ret.val.v :
        b \in {x \in S : Major_from_byte(x[1]) = major} }

Positives == {canonical(v) : v \in U64Samples} \cup ReadValues(WideInputs, "Positive")

Negatives == {canonical(v) : v \in U64Samples} \cup ReadValues(WideInputs, "Negative")

FewValues == {canonical(u64_from(1)), canonical(u64_from(124)), ValueOf("U8", u64_from(5))}

\* Byte::canonical(v)
ByteSamples == {canonical8(v) : v \in {0, 19, 20, 23, 24, 32, 255}}

FewBytes == {canonical8(16), canonical8(32)}

\* Bytes::from_slice / Text::from_str
from_slice(slice) == [kind |-> "Imm", data |-> BytesData(canonical(u64_from(Len(slice))), slice)]

\* Bytes::Chunks / Text::Chunks of chunks made by BytesData::from_slice
Chunks(slices) ==
    [kind |-> "Chunks",
     chunks |-> [i \in 1 .. Len(slices) |->
                    BytesData(canonical(u64_from(Len(slices[i]))), slices[i])]]

BytesSamples ==
    { from_slice(<<>>), from_slice(<<1>>), from_slice(<<1, 2>>),
      Chunks(<<>>), Chunks(<<(<<1>>)>>), Chunks(<<(<<1>>), <<>>, <<2, 3>>>>) }

FewBytesSamples == {from_slice(<<1>>), Chunks(<<(<<1>>)>>)}

\* "", "a", "é", and chunk lists of them
TextSamples ==
    { from_slice(<<>>), from_slice(<<97>>), from_slice(<<195, 169>>),
      Chunks(<<>>), Chunks(<<(<<97>>)>>), Chunks(<<(<<97>>), <<195, 169>>>>) }

FewTextSamples == {from_slice(<<97>>), Chunks(<<(<<97>>)>>)}

Constants == {"False", "True", "Null", "Undefined"}

FloatSamples ==
    { [fp |-> "FP16", bits |-> u64_from(0)],
      [fp |-> "FP16", bits |-> u64_from(15360)],
      [fp |-> "FP16", bits |-> u64_from(65535)],
      [fp |-> "FP32", bits |-> <<0, 0, 16752, 51991>>],
      [fp |-> "FP32", bits |-> <<0, 0, 65535, 65535>>],
      [fp |-> "FP64", bits |-> <<16368, 0, 0, 0>>],
      [fp |-> "FP64", bits |-> <<65535, 65535, 65535, 65535>>] }

FewFloats == {[fp |-> "FP16", bits |-> u64_from(15360)]}

\* StructureLength::Indefinite and StructureLength::from(n)
Lengths == {None} \cup {Some(canonical(u64_from(n))) : n \in {0, 1, 2, 24}}

\* closures that write nothing, one item, two items
Closures ==
    { <<>>,
      <<DataOf("Positive", canonical(u64_from(10)))>>,
      <<DataOf("True", "unit"), DataOf("Bytes", from_slice(<<1>>))>> }

FewBuilds == {[len |-> None, f |-> <<DataOf("Positive", canonical(u64_from(10)))>>]}

TagSamples == {canonical(u64_from(2)), canonical(u64_from(24)), canonical(<<0, 0, 1, 0>>)}

\* well-formed items, one or more of each kind
Items ==
    { <<1>>, <<24, 5>>, <<25, 1, 0>>, <<32>>, <<56, 5>>,
      <<64>>, <<65, 1>>, <<88, 1, 7>>, <<95, 255>>, <<95, 65, 1, 255>>, <<95, 88, 1, 7, 255>>,
      <<97, 97>>, <<120, 1, 97>>, <<127, 97, 97, 255>>,
      <<128>>, <<129, 1>>, <<152, 1, 1>>, <<159, 255>>, <<159, 1, 32, 255>>,
      <<160>>, <<161, 1, 2>>, <<191, 255>>, <<191, 1, 2, 255>>,
      <<194, 1>>, <<216, 24, 65, 1>>,
      <<240>>, <<248, 32>>, <<244>>, <<245>>, <<246>>, <<247>>,
      <<249, 60, 0>>, <<250, 65, 112, 203, 23>>, <<251, 63, 240, 0, 0, 0, 0, 0, 0>> }

FewItems == {<<24, 5>>, <<245>>}

\* call made on the Writer with the argument arg, w what it gives
Write(call, arg, w) ==
    /\ wret = "Ok"
    /\ Len(wlog) < MaxWrites
    /\ wd' = w.data
    /\ wprev' = wd
    /\ wlog' = Append(wlog, [call |-> call, arg |-> arg])
    /\ wret' = w.res

WrPositive ==
    /\ \E d \in Drawn(Positives, FewValues) :
          Write("positive", d, Writer_positive(WOk(wd), d))
    /\ UNCHANGED <<stateVars, validatorVars, readerVars>>

WrNegative ==
    /\ \E d \in Drawn(Negatives, FewValues) :
          Write("negative", d, Writer_negative(WOk(wd), d))
    /\ UNCHANGED <<stateVars, validatorVars, readerVars>>

WrByte ==
    /\ \E d \in Drawn(ByteSamples, FewBytes) :
          Write("byte", d, Writer_byte(WOk(wd), d))
    /\ UNCHANGED <<stateVars, validatorVars, readerVars>>

WrBytes ==
    /\ \E d \in Drawn(BytesSamples, FewBytesSamples) :
          Write("bytes", d, Writer_bytes(WOk(wd), d))
    /\ UNCHANGED <<stateVars, validatorVars, readerVars>>

WrText ==
    /\ \E d \in Drawn(TextSamples, FewTextSamples) :
          Write("text", d, Writer_text(WOk(wd), d))
    /\ UNCHANGED <<stateVars, validatorVars, readerVars>>

WrConstant ==
    /\ \E d \in Drawn(Constants, {"True"}) :
          Write("constant", d, Writer_constant(WOk(wd), d))
    /\ UNCHANGED <<stateVars, validatorVars, readerVars>>

WrFloat ==
    /\ \E d \in Drawn(FloatSamples, FewFloats) :
          Write("float", d, Writer_float(WOk(wd), d))
    /\ UNCHANGED <<stateVars, validatorVars, readerVars>>

WrArrayBuild ==
    /\ \E b \in Drawn([len : Lengths, f : Closures], FewBuilds) :
          Write("array_build", b, Writer_array_build(WOk(wd), b.len, b.f))
    /\ UNCHANGED <<stateVars, validatorVars, readerVars>>

WrMapBuild ==
    /\ \E b \in Drawn([len : Lengths, f : Closures], FewBuilds) :
          Write("map_build", b, Writer_map_build(WOk(wd), b.len, b.f))
    /\ UNCHANGED <<stateVars, validatorVars, readerVars>>

WrTagBuild ==
    /\ \E b \in Drawn([tag_val : TagSamples, f : Closures],
                       {[tag_val |-> canonical(u64_from(2)), f |-> <<>>]}) :
          Write("tag_build", b, Writer_tag_build(WOk(wd), b.tag_val, b.f))
    /\ UNCHANGED <<stateVars, validatorVars, readerVars>>

\* encode of a u8/u16/u32/u64
WrEncode ==
    /\ \E v \in Drawn(U64Samples, {u64_from(124)}) :
          Write("encode", v, encode_unsigned(WOk(wd), v))
    /\ UNCHANGED <<stateVars, validatorVars, readerVars>>

\* Reader::data() on an item, then Writer::data() of what was read
WrData ==
    /\ \E b \in Drawn(Items, FewItems) :
          /\ Reader_data(Reader_new(b).r).ret.res = "Ok"
          /\ Write("data", b, Writer_data(WOk(wd), Reader_data(Reader_new(b).r).ret.val))
    /\ UNCHANGED <<stateVars, validatorVars, readerVars>>

NextWriter ==
    \/ WrPositive \/ WrNegative \/ WrByte \/ WrBytes \/ WrText
    \/ WrConstant \/ WrFloat
    \/ WrArrayBuild \/ WrMapBuild \/ WrTagBuild
    \/ WrEncode \/ WrData

SpecWriter == InitState /\ [][NextWriter]_vars

----------------------------------------------------------------------------
(* A Reader decoded with Decode, and slices given to decode_from_bytes *)

\* the types T of the calls
DecodeTypes == {"bool", "u8", "u16", "u64", "Vec<u8>", "DataOwned"}

\* the longest input enumerated over DecodeAlphabet
MaxDecodeLen == 2

\* 0x01 positive 1, 0x18 positive on one more byte, 0x41 bytes of length 1,
\* 0x81 array of 1, 0xf5 true, 0xff break
DecodeAlphabet == {1, 24, 65, 129, 245, 255}

\* the input of tests::test_err_reading_type of src/lib.rs, 256 and 65536,
\* arrays of booleans with another item in them, an array cut short, an
\* array of arrays and items followed by more bytes
DecodeVectors ==
    { <<245, 24, 124>>, <<25, 1, 0>>, <<26, 0, 1, 0, 0>>, <<130, 245, 244>>,
      <<130, 245, 1>>, <<131, 245, 244, 24>>, <<159, 244, 246, 255>>,
      <<130, 128, 245>>, <<1, 1, 1>>, <<65, 1, 245>>, <<246, 1>> }

DecodeInputs == SeqsUpTo(DecodeAlphabet, MaxDecodeLen) \cup DecodeVectors

\* the name of a call with its type parameter
OpName(fn, ty) == fn \o "::<" \o ty \o ">"

FromBytesOps == {OpName("decode_from_bytes", ty) : ty \in DecodeTypes}

DecoderNew ==
    /\ rop = "none"
    /\ \E data \in DecodeInputs :
          /\ rd' = Reader_new(data).r
          /\ rret' = Reader_new(data).ret
    /\ rprev' = rd
    /\ rop' = "new"
    /\ UNCHANGED <<stateVars, validatorVars, writerVars>>

\* a call on the Reader; the Reader of decode_from_bytes is its own
DcCall(name, s) ==
    /\ rop \notin FromBytesOps
    /\ Call(name, s)

DcDecode ==
    /\ \E ty \in DecodeTypes : DcCall(OpName("decode", ty), Reader_decode(ty, rd))
    /\ UNCHANGED <<stateVars, validatorVars, writerVars>>

DcDecodeOne ==
    /\ \E ty \in DecodeTypes : DcCall(OpName("decode_one", ty), Reader_decode_one(ty, rd))
    /\ UNCHANGED <<stateVars, validatorVars, writerVars>>

DcDecodeVec ==
    /\ \E ty \in DecodeTypes : DcCall(OpName("decode_vec", ty), decode_vec(ty, rd))
    /\ UNCHANGED <<stateVars, validatorVars, writerVars>>

DcFromBytes ==
    /\ rop = "none"
    /\ \E ty \in DecodeTypes, slice \in DecodeInputs :
          /\ rd' = decode_from_bytes(ty, slice).r
          /\ rret' = decode_from_bytes(ty, slice).ret
          /\ rop' = OpName("decode_from_bytes", ty)
    /\ rprev' = rd
    /\ UNCHANGED <<stateVars, validatorVars, writerVars>>

NextDecode == DecoderNew \/ DcDecode \/ DcDecodeOne \/ DcDecodeVec \/ DcFromBytes

SpecDecode == InitState /\ [][NextDecode]_vars

----------------------------------------------------------------------------
(* The framing loops of Validator::next and Reader::cbor_slice_neutral,    *)
(* one turn of the loop at a time.  While a call runs, vret (rret) is      *)
(* [res |-> "Running", ...]; calls holds the turns of the running next().  *)

\* the longest input enumerated over LoopAlphabet
MaxLoopLen == 3

\* 0x01 positive 1, 0x41 bytes of length 1, 0x5f indefinite bytes, 0x82 array
\* of 2, 0x9f indefinite array, 0xa1 map of 1 pair, 0xc2 tag 2, 0xff break
LoopAlphabet == {1, 65, 95, 130, 159, 161, 194, 255}

\* and an array of 2^31 - 1 items, bytes of length 2^16 - 1, nested arrays
LoopVectors ==
    { <<154, 127, 255, 255, 255, 1, 1>>, <<89, 255, 255, 1>>,
      <<130, 130, 1, 194, 1, 159, 255>>, <<159, 159, 159, 255, 255, 255, 1>> }

LoopInputs == (SeqsUpTo(LoopAlphabet, MaxLoopLen) \ {<<>>}) \cup LoopVectors

LoopNew ==
    /\ vret = NoResult /\ rop = "none"
    /\ \E data \in LoopInputs :
          /\ vd' = Validator_new(data).v
          /\ vret' = Validator_new(data).r
    /\ calls' = <<>>
    /\ UNCHANGED <<stateVars, readerVars, writerVars>>

\* next() is called: let start = self.reader.index
LoopCall ==
    /\ vret.res \notin {"None", "Running", "Panic"}
    /\ vret' = [res |-> "Running", start |-> vd.index]
    /\ calls' = <<>>
    /\ UNCHANGED <<vd, stateVars, readerVars, writerVars>>

\* what next() returns, or that it stays in its loop, after the turn s
loop_turn_end(s, start) ==
    IF s.r.res # "Ok" THEN s.r
    ELSE IF acceptable(s.v.ctx)
         THEN [res |-> "Ok", slice |-> slice_from(s.v.data, s.v.index, start),
               n |-> s.v.index - start]
         ELSE [res |-> "Running", start |-> start]

\* one turn of the loop of next()
LoopTurn ==
    /\ vret.res = "Running"
    /\ vd' = Validator_next_step(vd).v
    /\ vret' = loop_turn_end(Validator_next_step(vd), vret.start)
    /\ calls' = Append(calls, [from |-> vd.index,
                               decoded |-> Validator_header_parts(vd).res = "Ok",
                               ctx |-> vd.ctx])
    /\ UNCHANGED <<stateVars, readerVars, writerVars>>

SliceNew ==
    /\ vret = NoResult /\ rop = "none"
    /\ \E data \in LoopInputs :
          /\ rd' = Reader_new(data).r
          /\ rret' = Reader_new(data).ret
    /\ rprev' = rd
    /\ rop' = "new"
    /\ UNCHANGED <<stateVars, validatorVars, writerVars>>

\* cbor_slice_neutral is called: let start = self.reader.index; let mut
\* state = State::new()
SliceCall ==
    /\ rop # "none"
    /\ rret.res \notin {"Running", "Panic"}
    /\ rprev' = rd
    /\ rop' = "cbor_slice_neutral"
    /\ rret' = [res |-> "Running", ctx |-> new, turns |-> 0]
    /\ UNCHANGED <<rd, stateVars, validatorVars, writerVars>>

\* what cbor_slice_neutral returns, or that it stays in its loop, after the
\* turn t, the turns-th
slice_turn_end(t, start, turns) ==
    IF t.ret.res # "Ok" THEN t.ret
    ELSE IF acceptable(t.ctx)
         THEN [res |-> "Ok", slice |-> slice_from(t.r.data, t.r.index, start)]
         ELSE [res |-> "Running", ctx |-> t.ctx, turns |-> turns]

\* one turn of the loop of cbor_slice_neutral
SliceTurn ==
    /\ rret.res = "Running"
    /\ rd' = slice_turn(rd, rret.ctx).r
    /\ rret' = slice_turn_end(slice_turn(rd, rret.ctx), rprev.index, rret.turns + 1)
    /\ UNCHANGED <<rprev, rop, stateVars, validatorVars, writerVars>>

NextLoop == LoopNew \/ LoopCall \/ LoopTurn \/ SliceNew \/ SliceCall \/ SliceTurn

SpecLoop == InitState /\ [][NextLoop]_vars

\* a call that was made runs on: the loop takes its next turn.  This is
\* WF_vars(LoopTurn), that is []<>~ENABLED <<LoopTurn>>_vars \/
\* []<><<LoopTurn>>_vars, with ENABLED <<LoopTurn>>_vars written as what it is
\* equal to: a turn is defined on every Validator and adds to calls, so it
\* is enabled exactly while the call runs
FairLoopTurn == []<>(vret.res # "Running") \/ []<><<LoopTurn>>_vars

\* the same for cbor_slice_neutral, whose turn counts itself in rret.turns
FairSliceTurn == []<>(rret.res # "Running") \/ []<><<SliceTurn>>_vars

SpecLoopFair == SpecLoop /\ FairLoopTurn /\ FairSliceTurn

----------------------------------------------------------------------------
(* Claims about the State machine (checked under SpecState) *)

RootIs(kind) == root # None /\ root[1].kind = kind

\* C1: after map(Some(n)), n >= 1, on an empty State, acceptable() is false
\* until exactly 2n items (n keys and n values) have been fed and true from
\* the 2n-th on; here the items fed are scalar items.
C1_MapNeedsTwoItemsPerPair ==
    (RootIs("map") /\ root[1].n >= 1) => (acceptable(ctx) <=> fed >= 2 * root[1].n)

\* what the code does instead: the map is reduced after n items
C1_MapReducedAfterNItems ==
    RootIs("map") /\ root[1].n >= 1 /\ fed = root[1].n /\ acceptable(ctx)

\* C9: while the top frame is Stream(Bytes) the only operations that succeed
\* are bytes(Some(_)) and brk(); while it is Stream(Text), only text(Some(_))
\* and brk().
C9_OnlyMatchingChunksInChunks ==
    (InChunks(prev) /\ ret = "Ok") =>
        \/ op.name = "brk"
        \/ /\ op.v # None
           /\ op.name = (IF Last(prev).sty.t = "Bytes" THEN "bytes" ELSE "text")

\* one item fed to frame f: an Array has one element less to come, a Tag is
\* filled, a Stream takes any number, and a Map frame moves as one scalar
\* item moves it
FillOne(f) ==
    CASE f.k = "Array" -> StructTyArray(f.n - 1)
      [] f.k = "Tag" -> StructTyTag(TRUE)
      [] f.k = "Stream" -> f
      [] f.k = "Map" -> Last(advance(<<f>>).ctx)

Complete(f) ==
    \/ f.k = "Array" /\ f.n = 0
    \/ f.k = "Map" /\ f.elements = 0
    \/ f.k = "Tag" /\ f.t

\* one complete item fed to stack s: the top frame is filled once and, when
\* that completes it, it is popped and is itself one item fed to the rest
RECURSIVE FeedOne(_)
FeedOne(s) ==
    IF s = <<>> THEN <<>>
    ELSE LET f == FillOne(Last(s)) IN
         IF Complete(f) THEN FeedOne(Front(s)) ELSE Append(Front(s), f)

OpsSimple == OpOf("simple", None)
OpsTag == OpOf("tag", None)
OpsBrk == OpOf("brk", None)
OpsArray(v) == OpOf("array", v)
OpsBytes(v) == OpOf("bytes", v)
SomeN(n) == Some(ValueU64(n))

Exec(c, o) ==
    CASE o.name = "simple" -> simple(c)
      [] o.name = "bytes" -> bytes(c, o.v)
      [] o.name = "text" -> text(c, o.v)
      [] o.name = "array" -> array(c, o.v)
      [] o.name = "map" -> map(c, o.v)
      [] o.name = "tag" -> tag(c)
      [] o.name = "brk" -> brk(c)

\* the operations of os applied in order from State::new(), all Ok, and the
\* State acceptable after the last and after none before
RECURSIVE AcceptsAtEnd(_, _)
AcceptsAtEnd(c, os) ==
    IF os = <<>> THEN TRUE
    ELSE LET r == Exec(c, os[1]) IN
         /\ r.res = "Ok"
         /\ acceptable(r.ctx) <=> Len(os) = 1
         /\ AcceptsAtEnd(r.ctx, SubSeq(os, 2, Len(os)))

\* what the code does instead: a scalar item is accepted among the chunks
C9_SimpleAcceptedInChunks ==
    InChunks(prev) /\ op.name = "simple" /\ ret = "Ok" /\ ctx = prev

\* C10: a construct that completes (a definite array/map at count zero, a
\* filled tag, a stream closed by brk) is popped and is one item fed to the
\* enclosing frame, repeated upward; a tag takes no slot when it is opened.
C10_ReductionCascade ==
    /\ (ret = "Ok" /\ ~InChunks(prev) /\ IsScalarOp(op)) => ctx = FeedOne(prev)
    /\ (ret = "Ok" /\ op.name = "brk") => ctx = FeedOne(Front(prev))
    /\ (ret = "Ok" /\ op.name \in {"array", "map"} /\ op.v # None) =>
           IF to_size(op.v[1]) = 0 THEN ctx = FeedOne(prev)
           ELSE Front(ctx) = prev /\ ~Complete(Last(ctx))
    /\ (ret = "Ok" /\ op.name = "tag") => ctx = Append(prev, StructTyTag(FALSE))
    /\ AcceptsAtEnd(new, <<OpsArray(SomeN(3)), OpsSimple, OpsTag, OpsSimple, OpsSimple>>)
    /\ AcceptsAtEnd(new, <<OpsArray(SomeN(3)), OpsSimple, OpsSimple, OpsArray(None), OpsBrk>>)
    /\ AcceptsAtEnd(new, <<OpsArray(SomeN(1)), OpsBytes(None), OpsBytes(SomeN(1)),
                           OpsBytes(SomeN(1)), OpsBrk>>)

\* a simple item fills a tag that is the last element of an array that is
\* itself one element of an outer array with more to come: the tag and the
\* inner array go and the outer array counts one
C10_CascadeHappens ==
    /\ op.name = "simple" /\ ret = "Ok"
    /\ Len(prev) = 3 /\ Len(ctx) = 1
    /\ prev[1].k = "Array" /\ prev[2] = StructTyArray(1) /\ prev[3] = StructTyTag(FALSE)
    /\ ctx[1] = StructTyArray(prev[1].n - 1)

FirstNext(data) == Validator_next(Validator_new(data).v).r

\* the Validator asked twice over data: what the second next() returned
SecondNext(data) == Validator_next(Validator_next(Validator_new(data).v).v).r

\* C8: brk() on an empty stack fails with BreakEmptyStack; brk() while the top
\* frame is a definite Array, a definite Map or a Tag fails with
\* BreakInNonStreamable; next() on [0xff] fails with BreakEmptyStack; on
\* [0x9f, 0xff, 0xff] the first next() frames the 2-byte indefinite array and
\* the second fails with BreakEmptyStack.
C8_BreakHandling ==
    /\ (op.name = "brk" /\ prev = <<>>) => ret = "BreakEmptyStack"
    /\ (op.name = "brk" /\ prev # <<>> /\ Last(prev).k \in {"Array", "Map", "Tag"}) =>
           ret = "BreakInNonStreamable"
    /\ FirstNext(<<255>>) = StateErrorOf("BreakEmptyStack")
    /\ FirstNext(<<159, 255, 255>>) = [res |-> "Ok", slice |-> <<159, 255>>, n |-> 2]
    /\ SecondNext(<<159, 255, 255>>) = StateErrorOf("BreakEmptyStack")

\* a brk is refused on a tag that waits for its item
C8_BreakOnTagRefused ==
    /\ op.name = "brk" /\ ret = "BreakInNonStreamable"
    /\ prev # <<>> /\ Last(prev) = StructTyTag(FALSE)

----------------------------------------------------------------------------
(* The CBOR grammar (RFC 8949), stated apart from the code: where a        *)
(* well-formed item that starts at offset i of d ends.                     *)

\* d stops before the item is complete
Truncated == 0 - 2
\* d[i..] does not start a well-formed item
Malformed == 0 - 1

\* the number of argument bytes that follow a lead byte of additional info
ArgBytes(info) ==
    CASE info < 24 -> 0
      [] info = 24 -> 1
      [] info = 25 -> 2
      [] info = 26 -> 4
      [] info = 27 -> 8
      [] OTHER -> 0

RECURSIVE WfItem(_, _)
RECURSIVE WfItems(_, _, _)
RECURSIVE WfUntilBreak(_, _, _)
RECURSIVE WfChunks(_, _, _)

\* n items in a row from offset i
WfItemsNext(d, e, n) == IF e < 0 THEN e ELSE WfItems(d, e, n - 1)
WfItems(d, i, n) == IF n = 0 THEN i ELSE WfItemsNext(d, WfItem(d, i), n)

\* groups of unit items from offset i up to a break, which is consumed
WfUntilBreakNext(d, e, unit) == IF e < 0 THEN e ELSE WfUntilBreak(d, e, unit)
WfUntilBreak(d, i, unit) ==
    IF i >= Len(d) THEN Truncated
    ELSE IF d[i + 1] = 255 THEN i + 1
    ELSE WfUntilBreakNext(d, WfItems(d, i, unit), unit)

\* definite chunks of major type m from offset i up to a break
WfChunksNext(d, e, m) == IF e < 0 THEN e ELSE WfChunks(d, e, m)
WfChunks(d, i, m) ==
    IF i >= Len(d) THEN Truncated
    ELSE IF d[i + 1] = 255 THEN i + 1
    ELSE IF d[i + 1] \div 32 # m \/ d[i + 1] % 32 > 27 THEN Malformed
    ELSE WfChunksNext(d, WfItem(d, i), m)

\* the item whose head (lead byte and argument) ends at offset h
WfBody(d, h, m, arg) ==
    CASE m \in {0, 1, 7} -> h
      [] m \in {2, 3} -> IF h + arg > Len(d) THEN Truncated ELSE h + arg
      [] m = 4 -> WfItems(d, h, arg)
      [] m = 5 -> WfItems(d, h, 2 * arg)
      [] m = 6 -> WfItems(d, h, 1)

WfHead(d, i, m, info) ==
    IF info \in 28 .. 30 THEN Malformed
    ELSE IF info = 31
    THEN CASE m \in {0, 1, 6, 7} -> Malformed
           [] m \in {2, 3} -> WfChunks(d, i + 1, m)
           [] m = 4 -> WfUntilBreak(d, i + 1, 1)
           [] m = 5 -> WfUntilBreak(d, i + 1, 2)
    ELSE IF i + 1 + ArgBytes(info) > Len(d) THEN Truncated
    ELSE WfBody(d, i + 1 + ArgBytes(info), m,
                IF info < 24 THEN info
                ELSE be_int(SubSeq(d, i + 2, i + 1 + ArgBytes(info))))

WfItem(d, i) ==
    IF i >= Len(d) THEN Truncated
    ELSE WfHead(d, i, d[i + 1] \div 32, d[i + 1] % 32)

\* d is exactly one well-formed item
IsItem(d) == WfItem(d, 0) = Len(d)

\* the offsets at which the items of d end, when d is a concatenation of
\* well-formed items; a negative entry when it is not
RECURSIVE ItemEnds(_, _)
ItemEndsNext(d, e) == IF e < 0 THEN <<e>> ELSE <<e>> \o ItemEnds(d, e)
ItemEnds(d, i) == IF i >= Len(d) THEN <<>> ELSE ItemEndsNext(d, WfItem(d, i))

IsConcatenation(ends) == ends # <<>> /\ \A k \in 1 .. Len(ends) : ends[k] >= 0

ItemStart(ends, k) == IF k = 1 THEN 0 ELSE ends[k - 1]

----------------------------------------------------------------------------
(* Claims about the Validator (checked under SpecValidator) *)

\* C2: every span returned by Validator::next() is exactly one structurally
\* complete, well-formed CBOR item under the CBOR grammar; no span is
\* returned for anything else.
C2_SpansAreItems ==
    \A k \in 1 .. Len(calls) : calls[k].ret.res = "Ok" => IsItem(calls[k].ret.slice)

\* what the code does instead: the header of a map of one pair and one item
\* are returned as a span
C2_TruncatedMapFramed ==
    vd.data = <<161, 1>> /\ vret = [res |-> "Ok", slice |-> <<161, 1>>, n |-> 2]

\* the framing of the calls made so far agrees with the item boundaries ends
FramedAs(ends) ==
    \A k \in 1 .. Len(calls) :
        k <= Len(ends) =>
            /\ calls[k].ret.res = "Ok"
            /\ calls[k].from = ItemStart(ends, k)
            /\ calls[k].ret.n = ends[k] - ItemStart(ends, k)
            /\ calls[k].ret.slice = SubSeq(vd.data, ItemStart(ends, k) + 1, ends[k])

\* C3: over an input that is the concatenation of k well-formed items, the
\* i-th next() (i <= k) succeeds and returns exactly the bytes of the i-th
\* item and its length, the spans consecutive; for one item the length is the
\* input's.
C3_Framing ==
    IsConcatenation(ItemEnds(vd.data, 0)) => FramedAs(ItemEnds(vd.data, 0))

\* what the code does instead: the map {1: 1} is framed without its value,
\* which the second next() then returns as an item
C3_MapFramedShort ==
    /\ vd.data = <<161, 1, 1>> /\ Len(calls) = 2
    /\ calls[1].ret.res = "Ok" /\ calls[1].ret.n = 2
    /\ calls[2].ret.res = "Ok" /\ calls[2].from = 2

\* C4: next() over a non-empty strict prefix of a well-formed item (the
\* grammar runs out of bytes before the item is complete) fails with
\* DataMissing.  The second half of the claim, that the prefix with the missing
\* bytes appended parses as the whole item does, compares a parse with itself.
C4_PrefixIsDataMissing ==
    (Len(calls) >= 1 /\ vd.data # <<>> /\ WfItem(vd.data, 0) = Truncated) =>
        calls[1].ret.res = "DataMissing"

\* what the code does instead: the prefix is returned as an item
C4_PrefixAccepted ==
    Len(calls) = 1 /\ WfItem(vd.data, 0) = Truncated /\ vret.res = "Ok"

\* C5: a read of n bytes that fails for lack of data reports got_bytes = the
\* bytes available where the n bytes were to start (for indirect bytes: after
\* the lead byte); [0x43] gives (3, 0), [0x43, 0x01] gives (3, 1) and
\* [0x19, 0x01] gives (2, 1) with context IndirectLen.
C5_GotBytesIsAvailable ==
    /\ vret.res = "DataMissing" =>
           vret.got_bytes = remaining_bytes(vd.data, vd.index)
                              - (IF vret.context = "IndirectLen" THEN 1 ELSE 0)
    /\ (vd.data = <<67>> /\ Len(calls) = 1) => vret = DataMissing(3, 0, "Content")
    /\ (vd.data = <<67, 1>> /\ Len(calls) = 1) => vret = DataMissing(3, 1, "Content")
    /\ (vd.data = <<25, 1>> /\ Len(calls) = 1) => vret = DataMissing(2, 1, "IndirectLen")

\* what the code does instead: the lead byte is counted among the bytes got
C5_GotBytesCountsLeadByte ==
    vd.data = <<25, 1>> /\ vret = DataMissing(2, 2, "IndirectLen")

----------------------------------------------------------------------------
(* Claims about the Reader (checked under SpecReader) *)

\* the types of item each typed accessor is for
Accepts(name) ==
    CASE name = "positive" -> {"Positive"}
      [] name = "negative" -> {"Negative"}
      [] name = "scalar" -> {"Positive", "Negative"}
      [] name = "byte" -> {"Byte"}
      [] name = "float" -> {"Float"}
      [] name = "constant" -> {"False", "True", "Null", "Undefined"}
      [] name = "bool" -> {"False", "True"}
      [] name = "null" -> {"Null"}
      [] name = "undefined" -> {"Undefined"}
      [] name = "bytes" -> {"Bytes"}
      [] name = "text" -> {"Text"}
      [] name = "array" -> {"Array"}
      [] name = "map" -> {"Map"}
      [] name = "tag" -> {"Tag"}

\* the last call was a typed accessor and the header it met decodes
MetHeader == rop \notin {"none", "new"} /\ Reader_header(rprev).res = "Ok"

\* the type of the header the last call met
MetType == Header_to_type(Reader_header(rprev).header)

\* C6: a typed accessor called on an item whose header is of a different type
\* returns WrongExpectedType/WrongExpectedTypes and leaves consumed_bytes
\* unchanged.
C6_MismatchDoesNotConsume ==
    (MetHeader /\ MetType \notin Accepts(rop)) =>
        /\ rret.res \in {"WrongExpectedType", "WrongExpectedTypes"}
        /\ rd.index = rprev.index

\* what the code does instead: null() takes the constant true
C6_NullTakesTrue ==
    /\ rop = "null" /\ MetHeader /\ MetType = "True"
    /\ rret.res = "Ok" /\ rd.index = rprev.index + 1

\* C7: a typed accessor that fails with DataMissing leaves the Reader's cursor
\* (consumed_bytes) where it was before the call.
C7_DataMissingDoesNotConsume ==
    (rop \notin {"none", "new"} /\ rret.res = "DataMissing") => rd.index = rprev.index

\* what the code does instead: bytes() is past the header when the payload
\* is found missing
C7_HeaderConsumedBeforeDataMissing ==
    /\ rop = "bytes" /\ rret.res = "DataMissing" /\ rret.context = "Content"
    /\ rd.index = rprev.index + 1

----------------------------------------------------------------------------
(* Claims about the canonical tiers and the Writer (checked under          *)
(* SpecWriter)                                                             *)

\* the last write made on the Writer
LastWrite == wlog[Len(wlog)]

Wrote(call) == wlog # <<>> /\ LastWrite.call = call

\* the Writer made one write, and it was call
OnlyWrite(call) == Len(wlog) = 1 /\ wlog[1].call = call

\* u64 values on and around every tier bound, in every limb
U64Grid ==
    { <<a, b, c, d>> : a \in {0, 1, 65535}, b \in {0, 1, 65535}, c \in {0, 1, 65535},
                       d \in {0, 23, 24, 255, 256, 65535} }

Tiers == <<"Imm", "U8", "U16", "U32", "U64">>

\* the tier can hold v: Imm up to 23, U8 below 2^8, U16 below 2^16, U32 below
\* 2^32, U64 anything
Holds(tier, v) ==
    CASE tier = "Imm" -> v[1] = 0 /\ v[2] = 0 /\ v[3] = 0 /\ v[4] <= 23
      [] tier = "U8" -> v[1] = 0 /\ v[2] = 0 /\ v[3] = 0 /\ v[4] <= 255
      [] tier = "U16" -> v[1] = 0 /\ v[2] = 0 /\ v[3] = 0
      [] tier = "U32" -> v[1] = 0 /\ v[2] = 0
      [] tier = "U64" -> TRUE

\* the first of Tiers that holds v
Narrowest(v) ==
    Tiers[CHOOSE i \in 1 .. 5 : Holds(Tiers[i], v) /\ \A j \in 1 .. (i - 1) : ~Holds(Tiers[j], v)]

\* the header values of every tier, an immediate being below 24
HeaderValues ==
    UNION { {ValueOf(Tiers[i], v) : v \in {x \in U64Grid : Holds(Tiers[i], x)}} : i \in 1 .. 5 }

\* C12: canonical(v) is the narrowest tier holding v and converts back to v
\* with to_u64, for every u64 v; is_canonical(h) is true exactly when h is
\* canonical(h.to_u64()), for every header value h with a valid immediate
\* (both over U64Grid, looked at once, on the new Writer); and what encode
\* wrote is the canonical header of its argument.
C12_CanonicalTiers ==
    /\ wlog = <<>> =>
          /\ \A v \in U64Grid \cup U64Samples :
                /\ canonical(v).tier = Narrowest(v)
                /\ to_u64(canonical(v)) = v
          /\ \A h \in HeaderValues : is_canonical(h) <=> (h = canonical(to_u64(h)))
    /\ (Wrote("encode") /\ wret = "Ok") =>
          /\ Len(wd) = Len(wprev) + 1 + Len(value_payload(canonical(LastWrite.arg)))
          /\ wd[Len(wprev) + 1] % 32 =
                 (CASE Narrowest(LastWrite.arg) = "Imm" -> LastWrite.arg[4]
                    [] Narrowest(LastWrite.arg) = "U8" -> 24
                    [] Narrowest(LastWrite.arg) = "U16" -> 25
                    [] Narrowest(LastWrite.arg) = "U32" -> 26
                    [] Narrowest(LastWrite.arg) = "U64" -> 27)

\* 2^32 was encoded: the first value that needs the U64 tier
C12_TwoPow32IsU64 ==
    /\ OnlyWrite("encode")
    /\ LastWrite.arg = <<0, 1, 0, 0>>
    /\ wd = <<27, 0, 0, 0, 1, 0, 0, 0, 0>>

\* the lead byte the last Reader call started at, and its argument bytes
LeadMet == rprev.data[rprev.index + 1]

ArgMet == SubSeq(rprev.data, rprev.index + 2, rprev.index + 1 + ArgBytes(LeadMet % 32))

\* the last call was positive() on major type 0 or negative() on major type 1,
\* on a header that is all there
IntegerMet ==
    /\ rop \in {"positive", "negative"}
    /\ rprev.index < Len(rprev.data)
    /\ LeadMet \div 32 = (IF rop = "positive" THEN 0 ELSE 1)
    /\ LeadMet % 32 <= 27
    /\ rprev.index + 1 + ArgBytes(LeadMet % 32) <= Len(rprev.data)

\* the tier a lead byte asks for
TierMet ==
    CASE LeadMet % 32 < 24 -> "Imm"
      [] LeadMet % 32 = 24 -> "U8"
      [] LeadMet % 32 = 25 -> "U16"
      [] LeadMet % 32 = 26 -> "U32"
      [] LeadMet % 32 = 27 -> "U64"

\* C13: positive()/negative() on an integer header succeeds whatever tier the
\* value is encoded in, yields the numeric value, consumes the whole header,
\* and is_canonical() on the result is false exactly when a narrower tier
\* would hold the value.
C13_NonCanonicalAccepted ==
    IntegerMet =>
        /\ rret.res = "Ok"
        /\ rd.index = rprev.index + 1 + ArgBytes(LeadMet % 32)
        /\ rret.val.tier = TierMet
        /\ as_usize(to_u64(rret.val)) = (IF LeadMet % 32 < 24 THEN LeadMet % 32 ELSE be_int(ArgMet))
        /\ is_canonical(rret.val) <=> (Narrowest(to_u64(rret.val)) = TierMet)

\* [0x18, 0x05] was read with positive(): 5 in the U8 tier, not canonical
C13_FiveReadAsU8 ==
    /\ rop = "positive"
    /\ rprev = [data |-> <<24, 5>>, index |-> 0]
    /\ rd.index = 2
    /\ rret.res = "Ok"
    /\ rret.val = ValueOf("U8", u64_from(5))
    /\ ~is_canonical(rret.val)

\* the header of major type major (0 .. 7) and argument v in the narrowest
\* tier holding v: the lead byte, then the big-endian bytes of that tier
CanonicalHead(major, v) ==
    CASE Narrowest(v) = "Imm" -> <<major * 32 + v[4]>>
      [] Narrowest(v) = "U8" -> <<major * 32 + 24, v[4]>>
      [] Narrowest(v) = "U16" -> <<major * 32 + 25, v[4] \div 256, v[4] % 256>>
      [] Narrowest(v) = "U32" ->
             <<major * 32 + 26, v[3] \div 256, v[3] % 256, v[4] \div 256, v[4] % 256>>
      [] Narrowest(v) = "U64" ->
             <<major * 32 + 27, v[1] \div 256, v[1] % 256, v[2] \div 256, v[2] % 256,
               v[3] \div 256, v[3] % 256, v[4] \div 256, v[4] % 256>>

\* what the last write appended
Written == SubSeq(wd, Len(wprev) + 1, Len(wd))

\* C14: positive() and negative() append the header of the value in the
\* narrowest tier able to hold it, for every value passed in, a value read
\* from a non-canonical encoding included.
C14_WritesCanonicalTier ==
    /\ (Wrote("positive") /\ wret = "Ok") =>
          Written = CanonicalHead(0, to_u64(LastWrite.arg))
    /\ (Wrote("negative") /\ wret = "Ok") =>
          Written = CanonicalHead(1, to_u64(LastWrite.arg))

\* what the code does instead: the Positive read from [0x18, 0x05] is written
\* back in the tier it was read in
C14_WideTierWrittenBack ==
    /\ OnlyWrite("positive")
    /\ LastWrite.arg = ValueOf("U8", u64_from(5))
    /\ ValueOf("U8", u64_from(5)) = Reader_positive(Reader_new(<<24, 5>>).r).ret.val
    /\ wret = "Ok"
    /\ wd = <<24, 5>>

\* C15: encode of an unsigned integer v appends a major-type-0 header in the
\* narrowest tier followed by the big-endian value bytes (one byte v below
\* 24, [0x18, v] below 256, [0x19, hi, lo] below 65536, and so on), and
\* encoding the same value twice appends the same bytes twice.
C15_EncodeUnsigned ==
    /\ wlog = <<>> =>
          /\ \A v \in 0 .. 23 : encode_to_bytes(u64_from(v)) = <<v>>
          /\ \A v \in 24 .. 255 : encode_to_bytes(u64_from(v)) = <<24, v>>
          /\ \A v \in {256, 1000, 65535} :
                encode_to_bytes(u64_from(v)) = <<25, v \div 256, v % 256>>
          /\ encode_to_bytes(u64_from(124)) = <<24, 124>>
          /\ encode_to_bytes(<<0, 0, 1, 0>>) = <<26, 0, 1, 0, 0>>
          /\ encode_to_bytes(<<0, 0, 65535, 65535>>) = <<26, 255, 255, 255, 255>>
          /\ encode_to_bytes(<<0, 1, 0, 0>>) = <<27, 0, 0, 0, 1, 0, 0, 0, 0>>
          /\ \A v \in U64Grid : encode_to_bytes(v) = CanonicalHead(0, v)
    /\ (Wrote("encode") /\ wret = "Ok") => Written = CanonicalHead(0, LastWrite.arg)
    /\ (Len(wlog) = 2 /\ Wrote("encode") /\ wret = "Ok"
          /\ wlog[1].call = "encode" /\ wlog[1].arg = wlog[2].arg) =>
          Written = wprev

\* 124 was encoded twice: [0x18, 0x7c] both times
C15_Encoded124Twice ==
    /\ Len(wlog) = 2
    /\ wlog[1].call = "encode" /\ wlog[2].call = "encode"
    /\ wlog[1].arg = u64_from(124) /\ wlog[2].arg = u64_from(124)
    /\ wprev = <<24, 124>>
    /\ wd = <<24, 124, 24, 124>>

\* the Reader accessor that matches a write
ReadWith(call, r) ==
    CASE call = "positive" -> Reader_positive(r)
      [] call = "negative" -> Reader_negative(r)
      [] call = "constant" -> Reader_constant(r)
      [] call = "float" -> Reader_float(r)
      [] call = "bytes" -> Reader_bytes(r)
      [] call = "text" -> Reader_text(r)

RECURSIVE ReadsBack(_, _)

\* s is what the matching accessor gave for the first write of log
ReadsBackFrom(s, log) ==
    /\ s.ret.res = "Ok"
    /\ s.ret.val = log[1].arg
    /\ ReadsBack(s.r, Tail(log))

\* the items of log are read from r in order, each equal to what was written,
\* and the Reader is finished after the last
ReadsBack(r, log) ==
    IF log = <<>> THEN r.index = Len(r.data)
    ELSE ReadsBackFrom(ReadWith(log[1].call, r), log)

\* every write of log is of one of names
OnlyCalls(log, names) == \A i \in 1 .. Len(log) : log[i].call \in names

\* C16: what was written with positive, negative, constant, float, bytes and
\* text is read back by the matching accessors, in the same order, equal to
\* what was written, and the Reader is then finished.
C16_RoundTrip ==
    (wlog # <<>> /\ wret = "Ok"
       /\ OnlyCalls(wlog, {"positive", "negative", "constant", "float", "bytes", "text"})) =>
        ReadsBack(Reader_new(wd).r, wlog)

\* what the code does instead: the one-byte Bytes built by Bytes::from_slice
\* has its length in the immediate tier, and is read back with a U8 length
C16_ShortBytesReadBackAsU8 ==
    /\ OnlyWrite("bytes")
    /\ LastWrite.arg = from_slice(<<1>>)
    /\ wd = <<65, 1>>
    /\ Reader_bytes(Reader_new(wd).r).ret.res = "Ok"
    /\ Reader_bytes(Reader_new(wd).r).ret.val.data.b = ValueOf("U8", u64_from(1))
    /\ LastWrite.arg.data.b = ValueOf("Imm", u64_from(1))

\* C17: for every v in 0 ..= 255, byte(Byte::canonical(v)) completes without
\* a panic, and byte() on what it wrote returns a Byte whose to_u8() is v and
\* leaves the Reader finished.
C17_ByteRoundTrip ==
    Wrote("byte") =>
        /\ wret = "Ok"
        /\ Len(wlog) = 1 => ReadsBackFrom(Reader_byte(Reader_new(wd).r), wlog)
        /\ \A v \in 0 .. 255 :
              /\ Writer_byte(Writer_new, canonical8(v)).res = "Ok"
              /\ Reader_byte(Reader_new(Writer_byte(Writer_new, canonical8(v)).data).r).ret.res = "Ok"
              /\ to_u8(Reader_byte(Reader_new(Writer_byte(Writer_new, canonical8(v)).data).r).ret.val) = v

\* what the code does instead: Byte::canonical(20) is the immediate 20, and
\* byte() of it fails its assert!(v < 0x14) with nothing written
C17_Byte20Panics ==
    /\ OnlyWrite("byte")
    /\ LastWrite.arg = ValueOf("Imm", u64_from(20))
    /\ canonical8(20) = LastWrite.arg
    /\ wret = "Panic"
    /\ wd = <<>>

\* C18: an item read with Reader::data() and written with Writer::data() is
\* reproduced byte for byte, with the header tier and the definite or
\* indefinite form it was read in.
C18_ByteExactReencoding ==
    Wrote("data") =>
        /\ wret = "Ok"
        /\ Written = LastWrite.arg

\* what the code does instead: the one-byte byte string [0x41, 0x01] is
\* written back with its length in the 1-byte tier
C18_ImmediateLengthWidened ==
    /\ OnlyWrite("data")
    /\ LastWrite.arg = <<65, 1>>
    /\ wret = "Ok"
    /\ wd = <<88, 1, 1>>

\* what a closure appends to a Writer, whatever the Writer holds already
Appended(f) == call_closure(Writer_new, f).data

\* the header a builder starts with: the indefinite marker of the major type,
\* or the definite length in its tier
BuildHead(major, len) ==
    IF len = None THEN <<major * 32 + 31>> ELSE CanonicalHead(major, to_u64(len[1]))

\* what array_build / map_build of major type major append
Built(major, b) ==
    BuildHead(major, b.len) \o Appended(b.f) \o (IF b.len = None THEN <<255>> ELSE <<>>)

\* C19: array_build(len, f) and map_build(len, f) append the length header
\* (or 0x9f / 0xbf), then what f appends, then one 0xff if and only if len is
\* Indefinite; tag_build(tag, f) appends the tag header, then what f appends,
\* and nothing more; the bytes already in the buffer are unchanged.
C19_Builders ==
    /\ Wrote("array_build") => (wret = "Ok" /\ wd = wprev \o Built(4, LastWrite.arg))
    /\ Wrote("map_build") => (wret = "Ok" /\ wd = wprev \o Built(5, LastWrite.arg))
    /\ Wrote("tag_build") =>
          /\ wret = "Ok"
          /\ wd = wprev \o CanonicalHead(6, to_u64(LastWrite.arg.tag_val))
                      \o Appended(LastWrite.arg.f)

\* after a first write, array_build(Indefinite, |w| w.positive(10)) appended
\* [0x9f, 0x0a, 0xff]
C19_IndefiniteArrayBuilt ==
    /\ Len(wlog) = 2
    /\ wprev # <<>>
    /\ Wrote("array_build")
    /\ LastWrite.arg.len = None
    /\ Written = <<159, 10, 255>>

----------------------------------------------------------------------------
(* Claims about the lead byte (checked under SpecValidator) *)

\* the error Lead::from_byte is to give on a byte, "Ok" when it is to succeed
LeadVerdict(b) ==
    IF b % 32 \in 28 .. 30 THEN "Reserved"
    ELSE IF b % 32 = 31 /\ b \div 32 \in {0, 1, 6} THEN "IndefiniteNotSupported"
    ELSE "Ok"

\* C20: Lead::from_byte fails with Reserved on the contents 28 .. 30 of every
\* major type, with IndefiniteNotSupported on the content 31 of Positive,
\* Negative and Tag, and succeeds on every other byte, the content 31 being
\* the indefinite form of Bytes/Text/Array/Map and Break in major type 7; a
\* Validator whose input starts with such a byte returns that error whatever
\* follows the byte, never DataMissing.
C20_LeadByteErrors ==
    /\ calls = <<>> =>
          \A b \in 0 .. 255 :
              /\ LeadVerdict(b) = "Ok" =>
                    /\ Lead_from_byte(b).res = "Ok"
                    /\ (b % 32 = 31 /\ b \div 32 \in 2 .. 5) =>
                          Lead_from_byte(b).lead.c = ContentStreamStream
                    /\ b = 255 => Lead_from_byte(b).lead.l = "Break"
              /\ LeadVerdict(b) # "Ok" =>
                    /\ Lead_from_byte(b).res = "LeadError"
                    /\ Lead_from_byte(b).err = LeadVerdict(b)
    /\ (Len(calls) >= 1 /\ LeadVerdict(vd.data[1]) # "Ok") =>
          /\ calls[1].ret.res = "LeadError"
          /\ calls[1].ret.err = LeadVerdict(vd.data[1])

\* next() on [0xdf, 0x01, 0x01], a tag of content 31 with bytes after it,
\* returned IndefiniteNotSupported
C20_IndefiniteTagRefused ==
    /\ vd.data = <<223, 1, 1>>
    /\ Len(calls) = 1
    /\ vret.res = "LeadError"
    /\ vret.err = "IndefiniteNotSupported"

----------------------------------------------------------------------------
(* Claims about Decode (checked under SpecDecode) *)

\* the Reader left no byte
Finished(r) == r.index = Len(r.data)

\* the bytes the Reader left
Left(r) == Len(r.data) - r.index

\* the DecodeError e carries the kind kind
IsKind(e, kind) == e.res = "DecodeError" /\ e.error.kind = kind

\* the DecodeError e wraps the ReaderError NotTerminated
IsNotTerminated(e) == IsKind(e, "ReaderError") /\ e.error.err.res = "NotTerminated"

\* what decode_from_bytes::<T> is to return when decode::<T> gave d
FromBytesAsClaimed(ty, d) ==
    /\ rret.res = "Ok" => Finished(rd)
    /\ (d.ret.res = "Ok" /\ Left(d.r) >= 1) =>
          /\ IsNotTerminated(rret)
          /\ rret.error.err.remaining_bytes = Left(d.r)
    /\ (d.ret.res = "Ok" /\ Left(d.r) = 0) => rret.res = "Ok"
    /\ IsNotTerminated(rret) =>
          /\ Left(rd) >= 1
          /\ rret.error.err.remaining_bytes = Left(rd)

\* what decode_one::<T> is to return when decode::<T> gave d
DecodeOneAsClaimed(ty, d) ==
    /\ rret.res = "Ok" => Finished(rd)
    /\ (d.ret.res = "Ok" /\ Left(d.r) >= 1) =>
          /\ IsKind(rret, "ReaderNotTerminated")
          /\ rret.error.remaining_bytes = Left(d.r)
    /\ (d.ret.res = "Ok" /\ Left(d.r) = 0) => rret.res = "Ok"

\* what decode::<T> is to return when T::decode gave d
DecodeAsClaimed(ty, d) ==
    /\ rret = d.ret
    /\ rd = d.r
    /\ ~IsKind(rret, "ReaderNotTerminated")
    /\ ~IsNotTerminated(rret)

\* C21: decode_from_bytes::<T> returns Ok only when decoding one T consumed
\* every byte of the slice, and when the T decoded and n >= 1 bytes remain it
\* returns an error (NotTerminated) reporting n; Reader::decode_one::<T> gives
\* ReaderNotTerminated { remaining_bytes: n } in that case and Ok when nothing
\* remains; Reader::decode alone succeeds whatever follows the item and
\* leaves the bytes after it unread.
C21_TrailingBytes ==
    \A ty \in DecodeTypes :
        /\ (rop = OpName("decode_from_bytes", ty) /\ rret.res # "Panic") =>
              FromBytesAsClaimed(ty, Decode_decode(ty, [rd EXCEPT !.index = 0]))
        /\ rop = OpName("decode_one", ty) =>
              DecodeOneAsClaimed(ty, Decode_decode(ty, rprev))
        /\ rop = OpName("decode", ty) =>
              DecodeAsClaimed(ty, Decode_decode(ty, rprev))

\* decode_one::<bool> on [0xf5, 0x18, 0x7c] gave ReaderNotTerminated with 2
\* remaining bytes
C21_DecodeOneLeftTwo ==
    /\ rop = OpName("decode_one", "bool")
    /\ rd.data = <<245, 24, 124>>
    /\ rprev.index = 0
    /\ IsKind(rret, "ReaderNotTerminated")
    /\ rret.error.remaining_bytes = 2

RECURSIVE JoinFrom(_, _)

\* the entries i .. Len(context) of context in that order, joined by "->"
JoinFrom(context, i) ==
    IF i > Len(context) THEN ""
    ELSE IF i = Len(context) THEN context[i]
    ELSE context[i] \o "->" \o JoinFrom(context, i + 1)

\* the element of the array read from rprev that decode::<T> fails on first,
\* as the index format!("{}", i) gives; "" when there is none
RECURSIVE FirstFailing(_, _, _)
FirstFailing(ty, elements, i) ==
    IF i > Len(elements) THEN ""
    ELSE IF Decode_decode(ty, [data |-> elements[i], index |-> 0]).ret.res # "Ok"
         THEN ToString(i - 1)
         ELSE FirstFailing(ty, elements, i + 1)

\* the context decode_vec::<T> is to give on the array a read from rprev
VecContext(ty, a) ==
    IF a.ret.res # "Ok" THEN <<"Vec">>
    ELSE <<type_name(ty), FirstFailing(ty, a.ret.val.elements, 1), "Vec">>

\* the entries of the context and their order: [T, i, "Vec"] on the element i
\* of decode_vec::<T>, ["Vec"] on its array, [T] on a decode of one T
ContextEntriesAsClaimed ==
    \A ty \in DecodeTypes :
        /\ rop = OpName("decode_vec", ty) =>
              DecodeError_context(rret) = VecContext(ty, Reader_array(rprev))
        /\ rop \in {OpName("decode", ty), OpName("decode_one", ty),
                    OpName("decode_from_bytes", ty)} =>
              DecodeError_context(rret) = <<type_name(ty)>>

\* C22: the context of a DecodeError is a list whose first entry is the one
\* given when the error was created (the innermost: the type that failed to
\* decode) and to which each push adds the next-outer entry, so an error of
\* decode_vec::<T> on the element i holds [T, i, "Vec"] and one of a plain
\* decode::<T> holds [T]; context_as_path() renders the entries
\* innermost-first, joined by "->".
C22_ContextPath ==
    rret.res = "DecodeError" =>
        /\ ContextEntriesAsClaimed
        /\ context_as_path(rret) = JoinFrom(DecodeError_context(rret), 1)

\* decode_vec::<bool> on [0x82, 0xf5, 0x01] failed on the element 1: the
\* context is ["bool", "1", "Vec"] and the path is "Vec->1->bool", the
\* outermost entry first
C22_PathOutermostFirst ==
    /\ rop = OpName("decode_vec", "bool")
    /\ rd.data = <<130, 245, 1>>
    /\ rret.res = "DecodeError"
    /\ DecodeError_context(rret) = <<"bool", "1", "Vec">>
    /\ context_as_path(rret) = "Vec->1->bool"

\* C27: constructing a Reader or a Validator over any slice, the empty one
\* included, and calling decode_from_bytes on it never panics; an empty input
\* is reported as an error value, DataMissing expecting 1 byte and got 0.
C27_EmptyInputIsError ==
    /\ rret.res # "Panic"
    /\ rop = "new" => Validator_new(rd.data).r.res # "Panic"
    /\ \A ty \in DecodeTypes :
          (rop = OpName("decode_from_bytes", ty) /\ rd.data = <<>>) =>
              /\ IsKind(rret, "ReaderError")
              /\ rret.error.err = DataMissing(1, 0, "Header")

\* what the code does instead: decode_from_bytes::<bool> on the empty slice
\* stopped on the assertion of Reader::new
C27_EmptySlicePanics ==
    /\ rop = OpName("decode_from_bytes", "bool")
    /\ rd.data = <<>>
    /\ rret.res = "Panic"

----------------------------------------------------------------------------
(* Claims about Reader::array and Reader::map (checked under SpecReader) *)

RECURSIVE Concat(_)

\* the slices of the sequence ss one after the other
Concat(ss) == IF ss = <<>> THEN <<>> ELSE ss[1] \o Concat(SubSeq(ss, 2, Len(ss)))

RECURSIVE Flat(_)

\* the keys and values of the pairs ps in their order
Flat(ps) == IF ps = <<>> THEN <<>> ELSE <<ps[1][1], ps[1][2]>> \o Flat(SubSeq(ps, 2, Len(ps)))

\* the spans array() or map() returned, one after the other
Spans == IF rop = "map" THEN Flat(rret.val.elements) ELSE rret.val.elements

\* the offset after the head of the structure at the cursor of rprev
AfterHead == rprev.index + Reader_header(rprev).advance

\* the lead byte at the cursor of rprev has the major type major
LeadMajor(major) ==
    /\ rprev.index < Len(rprev.data)
    /\ rprev.data[rprev.index + 1] \div 32 = major

\* the length on the head at the cursor of rprev: <<>> when indefinite
Declared == Reader_header(rprev).header.val

\* C23: on a well-formed array (map) at the cursor, Reader::array()
\* (Reader::map()) succeeds, returns exactly the declared number of elements
\* (pairs), or every item before the break when indefinite; the spans are
\* consecutive and non-overlapping from the end of the head on, each exactly
\* one complete item, and the cursor ends just past the structure, past the
\* break when indefinite, for elements of every kind, nested maps, arrays
\* and tags included.
C23_ArrayMapSpans ==
    /\ (rop \in {"array", "map"} /\ rret.res = "Ok") =>
          /\ Declared # None =>
                Len(rret.val.elements) = to_size(Declared[1])
          /\ \A k \in 1 .. Len(Spans) : IsItem(Spans[k])
          /\ Concat(Spans)
                = SubSeq(rprev.data, AfterHead + 1,
                         IF Declared = None THEN rd.index - 1 ELSE rd.index)
          /\ Declared = None => rprev.data[rd.index] = 255
          /\ rd.index = WfItem(rprev.data, rprev.index)
    /\ (rop = "array" /\ LeadMajor(4) /\ WfItem(rprev.data, rprev.index) >= 0) =>
          rret.res = "Ok"
    /\ (rop = "map" /\ LeadMajor(5) /\ WfItem(rprev.data, rprev.index) >= 0) =>
          rret.res = "Ok"

\* array() on [0x81, 0xa1, 0x01, 0x02], an array of the map {1: 2}, returned
\* one element that is [0xa1, 0x01], the map without its value, and left the
\* cursor at 3, before the value
C23_NestedMapCutShort ==
    /\ rop = "array"
    /\ rprev = [data |-> <<129, 161, 1, 2>>, index |-> 0]
    /\ rret.res = "Ok"
    /\ rret.val.elements = << <<161, 1>> >>
    /\ rd.index = 3

----------------------------------------------------------------------------
(* Claims about Reader::null and Reader::undefined (checked under          *)
(* SpecReader)                                                             *)

\* the accessor of the last call, for the constant ty, did as C24 says
OnlyOn(ty) ==
    IF MetType = ty
    THEN rret.res = "Ok" /\ rd.index = rprev.index + 1
    ELSE /\ rret = WrongExpectedType(ty, MetType)
         /\ rd.index = rprev.index

\* C24: Reader::null() succeeds only when the next item is the constant Null
\* (0xf6); on any other item, the constants false, true and undefined
\* included, it returns WrongExpectedType with expected = Null and does not
\* advance the cursor.  Reader::undefined() likewise succeeds only on
\* Undefined (0xf7).
C24_NullOnlyOnNull ==
    /\ (rop = "null" /\ MetHeader) => OnlyOn("Null")
    /\ (rop = "undefined" /\ MetHeader) => OnlyOn("Undefined")

\* undefined() on [0xf6], the constant null, returned Ok and consumed it
C24_UndefinedTakesNull ==
    /\ rop = "undefined"
    /\ rprev = [data |-> <<246>>, index |-> 0]
    /\ rret.res = "Ok"
    /\ rd.index = 1

----------------------------------------------------------------------------
(* Claims about the cursor (checked under SpecReader) *)

\* the cursor went from the offset from to the offset to in data, within it
\* and not backwards
CursorMoved(data, from, to) ==
    /\ 0 <= to /\ to <= Len(data)
    /\ from <= to
    /\ to + remaining_bytes(data, to) = Len(data)
    /\ remaining_bytes(data, to) >= 0

\* the cursor of a Validator over v.data along n calls of next() from v
RECURSIVE NextKeepsCursor(_, _)
NextKeepsCursor(v, n) ==
    \/ n = 0
    \/ /\ CursorMoved(v.data, v.index, Validator_next(v).v.index)
       /\ NextKeepsCursor(Validator_next(v).v, n - 1)

\* C29: after any sequence of Reader accessor calls or of Validator::next()
\* calls, successful or failed, on a buffer of length L, the consumed index
\* is within 0 .. L, consumed_bytes + remaining_bytes = L, and the index
\* never decreases.
C29_CursorInvariant ==
    /\ rop # "none" => CursorMoved(rd.data, IF rop = "new" THEN 0 ELSE rprev.index,
                                   rd.index)
    /\ (rop \notin {"none", "new"}) => rd.data = rprev.data
    /\ (rop = "new" /\ rret.res = "Ok") =>
          NextKeepsCursor(Validator_new(rd.data).v, MaxCalls)

\* bytes() on [0x41, 0x01] moved the cursor to 2, the end, and the
\* positive() after it failed and left it there
C29_CursorKeptByFailure ==
    /\ rd.data = <<65, 1>>
    /\ rprev.index = 2 /\ rd.index = 2
    /\ rop = "positive"
    /\ rret.res = "DataMissing"

----------------------------------------------------------------------------
(* Claims about the assertions of State (checked under SpecState) *)

\* C25: for every sequence of State operations from State::new(), whatever
\* they return, none of the assertions of advance() ("array is empty",
\* "elements is empty", "tag is finished already") fires, and after every
\* operation no frame left on the stack is an Array or a Map with remaining
\* count zero or a filled Tag.
C25_NoAssertionFires ==
    /\ ret # "Panic"
    /\ \A k \in 1 .. Len(ctx) : ~reduceable(ctx[k])

\* a simple item filled a tag that was the last element of an array inside
\* an array: both were popped at once and no finished frame was left
C25_FinishedFramesPopped ==
    /\ op.name = "simple" /\ ret = "Ok"
    /\ Len(prev) = 3
    /\ prev[2] = StructTyArray(1) /\ prev[3] = StructTyTag(FALSE)
    /\ prev[1].k = "Map"
    /\ Len(ctx) <= 1

\* C26: while the top frame is Stream(Bytes) or Stream(Text), array(_) and
\* map(_) fail with StructureInChunks, tag() fails with TagInChunk, and an
\* indefinite bytes(None) or text(None) fails with ChunksInChunks.
C26_ErrorsInChunks ==
    InChunks(prev) =>
        /\ op.name \in {"array", "map"} => ret = "StructureInChunks"
        /\ op.name = "tag" => ret = "TagInChunk"
        /\ (op.name \in {"bytes", "text"} /\ op.v = None) => ret = "ChunksInChunks"

\* what the code does instead: bytes(None) inside an indefinite byte string
\* fails with StructureInChunks and leaves the stack as it was
C26_ChunksGiveStructureInChunks ==
    /\ InChunks(prev) /\ Last(prev).sty = StreamTypeBytes
    /\ op.name = "bytes" /\ op.v = None
    /\ ret = "StructureInChunks"
    /\ ctx = prev

----------------------------------------------------------------------------
(* Claims about indefinite maps (checked under SpecValidator) *)

\* at offset i of d starts an indefinite map closed by its break after an
\* odd number of items: the items up to the break are well formed one by
\* one and do not pair up
OddMapAt(d, i) ==
    /\ i < Len(d)
    /\ d[i + 1] = 191
    /\ WfUntilBreak(d, i + 1, 1) >= 0
    /\ WfUntilBreak(d, i + 1, 2) < 0

\* the State after map(None) and one item
KeyFed == simple(map(new, None).ctx).ctx

\* C28: an indefinite map closed by a break after an odd number of items (a
\* key with no value) is rejected by the State machine and by
\* Validator::next(), never accepted as a complete item; Reader::map()
\* rejects the same input.
C28_OddIndefiniteMapRejected ==
    \A k \in 1 .. Len(calls) :
        OddMapAt(vd.data, calls[k].from) =>
            /\ calls[k].ret.res # "Ok"
            /\ brk(KeyFed).res # "Ok"
            /\ Reader_map([data |-> vd.data, index |-> calls[k].from]).ret.res # "Ok"

\* what the code does instead: next() on [0xbf, 0x01, 0xff] returned the
\* three bytes as an item, the State being acceptable after map(None), one
\* item and brk, while Reader::map() refuses them
C28_OddMapAccepted ==
    /\ vd.data = <<191, 1, 255>>
    /\ Len(calls) = 1
    /\ vret = [res |-> "Ok", slice |-> <<191, 1, 255>>, n |-> 3]
    /\ brk(KeyFed) = StOk(new)
    /\ Reader_map([data |-> vd.data, index |-> 0]).ret.res = "StateError"

----------------------------------------------------------------------------
(* Claims about termination (checked under SpecLoopFair) *)

\* the headers decoded by the turns of the running or last next()
RECURSIVE Decoded(_)
Decoded(turns) ==
    IF turns = <<>> THEN 0
    ELSE (IF Last(turns).decoded THEN 1 ELSE 0) + Decoded(Front(turns))

\* the frames check_reduce is to pop
FinishedFrames == {StructTyArray(0), StructTyMap(FALSE, 0), StructTyTag(TRUE)}

\* the Validator as the running or last next() found it
CallStart == [vd EXCEPT !.index = calls[1].from, !.ctx = calls[1].ctx]

\* every turn of next() so far consumed a byte at least, unless the call
\* returned with it, and the headers decoded are no more than the bytes
\* consumed since the call
NextProgresses ==
    calls # <<>> =>
        /\ \A k \in 2 .. Len(calls) : calls[k].from > calls[k - 1].from
        /\ vret.res = "Running" => vd.index > Last(calls).from
        /\ Decoded(calls) <= vd.index - calls[1].from
        /\ vd.index <= Len(vd.data)
        /\ vret.res # "Running" =>
              /\ vret = Validator_next(CallStart).r
              /\ vd = Validator_next(CallStart).v

\* the same of cbor_slice_neutral
SliceProgresses ==
    /\ rret.res = "Running" =>
          /\ rret.turns <= rd.index - rprev.index
          /\ rd.index <= Len(rd.data)
    /\ (rop = "cbor_slice_neutral" /\ rret.res # "Running") =>
          /\ rret = Reader_cbor_slice_neutral(rprev).ret
          /\ rd = Reader_cbor_slice_neutral(rprev).r

\* a turn of the loop of check_reduce on the stack of the Validator, a
\* finished frame on top of it, leaves one frame less
CascadeShrinks ==
    \A f \in FinishedFrames :
        /\ reduce_step(Append(vd.ctx, f)).res = "Ok"
        /\ Len(reduce_step(Append(vd.ctx, f)).ctx) = Len(vd.ctx)

\* array() on the input of the Reader gave no more elements than it consumed
\* bytes
ArrayBounded(a) ==
    a.ret.res = "Ok" => Len(a.ret.val.elements) <= a.r.index - rd.index

====
